---------------------------- MODULE Spec2Model ----------------------------
(***************************************************************************)
(* A model of the tacit trace decoder: the packet reader                   *)
(* (frontend/packet.rs), the frontend decoder (frontend/decoder.rs), the   *)
(* event bus between the decoder thread and the sink threads (main.rs,     *)
(* receivers/abstract_receiver.rs) and the sinks' consumption of events.   *)
(*                                                                         *)
(* Four specifications share the variables:                                *)
(*   SpecBus  the decoder thread as a producer of entries, the bounded     *)
(*            bus and the sink threads' receive loops;                     *)
(*   Spec     the decoder proper, one action per packet it reads;          *)
(*   SpecUnw  the stack unwinder of a sink (backend/stack_unwinder.rs),    *)
(*            one action per entry the sink hands to it.                   *)
(*   SpecFn   the pure functions of the packet reader, the address codec   *)
(*            and the symbol index, each applied to arguments of its own.  *)
(***************************************************************************)
EXTENDS Integers, Sequences, FiniteSets, TLC

VARIABLES
    \* ---- decoder thread (decode_trace) ----
    dpc,            \* position: "start", "loop", "ok", "err", "panicked", "hung"
    pc,             \* PC.addr (u64)
    timestamp,      \* running timestamp (u64)
    prv,            \* current privilege
    ctx,            \* current user ASID (u64)
    u_unknown_ctx,  \* returned to a user ASID that is not indexed
    bp_counter,     \* predictor: entry index -> 2-bit counter
    decoder_cache,  \* block start pc -> end-of-block pc
    runtime_cfg,    \* [br_mode, bp_entries] of the first packet
    packet,         \* the packet buffer, reused for every record
    npackets,       \* records read so far (bounded by MaxPackets)
    lastRead,       \* outcome of the last read_packet: [st, n, used]
    emitted,        \* every entry broadcast so far, in order
    emitCtx,        \* history: per emitted entry, the decoder's prv, ctx, u_unknown_ctx before the packet, the packet, and whether pc was cached
    busClosed,      \* the Bus has been dropped
    \* ---- bus and sink threads ----
    ring,           \* the bus's seats
    tail,           \* next seat the producer writes
    head,           \* per sink: next seat it reads
    spc,            \* per sink: "recv", "yield", "done"
    rxlog,          \* per sink: entries handed to _receive_entry, in order
    flushes,        \* per sink: number of _flush calls
    \* ---- a sink's stack unwinder (StackUnwinder) ----
    upc,            \* position: "new", "run", "flushed", "panicked"
    frame_stack,    \* Vec<Frame>, bottom first
    curr_prv,       \* the unwinder's current privilege
    update,         \* what the last step or flush returned
    lastEntry,      \* the entry the last step was given
    prevFrames,     \* history: frame_stack before the last step
    prevPrv,        \* history: curr_prv before the last step
    hart_prv,       \* the privilege the traced hart is in, as the trace tells
    nsteps,         \* entries stepped so far (bounded by MaxSteps)
    \* ---- the pure functions, called on their own ----
    op,             \* the function called last: "none", "range", "varint", ...
    arg,            \* its arguments
    ret,            \* what it returned
    \* ---- the sinks behind the bus ----
    sk,             \* the sink that is followed, the entries handed to it, the last one, SyncStart's timestamp, the last recorded target, the build
    prvb,           \* PrvBreakdownReceiver: curr_prv, the three counters, prev_timestamp
    afdo,           \* AfdoReceiver: range_map, branch_map, last_record
    spd             \* SpeedscopeReceiver: events, curr_ctx, start, end

decVars == <<dpc, pc, timestamp, prv, ctx, u_unknown_ctx, bp_counter,
             decoder_cache, runtime_cfg, packet, npackets, lastRead, emitCtx>>
busVars == <<ring, tail, head, spc, rxlog, flushes>>
unwVars == <<upc, frame_stack, curr_prv, update, lastEntry, prevFrames, prevPrv,
             hart_prv, nsteps>>
fnVars == <<op, arg, ret>>
sinkVars == <<sk, prvb, afdo, spd>>
vars == <<decVars, emitted, busClosed, busVars, unwVars, fnVars, sinkVars>>

-----------------------------------------------------------------------------
(* Bounds of the model.                                                    *)

\* Capacity handed to Bus::new. main.rs:87 sets 1024; the model scales the
\* capacity down so that a full bus is reached within MaxEntries broadcasts.
BUS_SIZE == 2
\* Sink threads subscribed before the decoder starts.
NumSinks == 2
\* Entries the producer of SpecBus broadcasts at most.
MaxEntries == 4
\* Entries a sink of SpecSink is handed after SyncStart, at most.
MaxEvents == 3
\* Records the decoder of Spec reads after the first packet, at most.
MaxPackets == 4
\* Entries the unwinder of SpecUnw is stepped with after SyncStart, at most.
MaxSteps == 4
\* Symbols of the binary an index of SpecFn is built from, at most.
MaxSyms == 3

Sinks == 1..NumSinks

-----------------------------------------------------------------------------
(* Unsigned 64-bit words.  TLC's integers are 32 bits wide, so a u64 is    *)
(* the triple <<h, m, l>> of its bits 63..40, 39..20 and 19..0.            *)

R20 == 2^20
R24 == 2^24

U64Zero == <<0, 0, 0>>
\* a small natural number (< 2^20) as a u64
U64Of(n) == <<0, 0, n>>

RECURSIVE BitXor(_, _, _)
BitXor(a, b, n) ==
    IF n = 0 THEN 0
    ELSE IF a = 0 THEN b
    ELSE IF b = 0 THEN a
    ELSE ((a + b) % 2) + 2 * BitXor(a \div 2, b \div 2, n - 1)

RECURSIVE BitOr(_, _, _)
BitOr(a, b, n) ==
    IF n = 0 THEN 0
    ELSE IF a = 0 THEN b
    ELSE IF b = 0 THEN a
    ELSE (IF a % 2 = 1 \/ b % 2 = 1 THEN 1 ELSE 0)
         + 2 * BitOr(a \div 2, b \div 2, n - 1)

RECURSIVE BitAnd(_, _, _)
BitAnd(a, b, n) ==
    IF n = 0 \/ a = 0 \/ b = 0 THEN 0
    ELSE (IF a % 2 = 1 /\ b % 2 = 1 THEN 1 ELSE 0)
         + 2 * BitAnd(a \div 2, b \div 2, n - 1)

U64Xor(x, y) == <<BitXor(x[1], y[1], 24), BitXor(x[2], y[2], 20), BitXor(x[3], y[3], 20)>>
U64Or(x, y)  == <<BitOr(x[1], y[1], 24), BitOr(x[2], y[2], 20), BitOr(x[3], y[3], 20)>>
U64And(x, y) == <<BitAnd(x[1], y[1], 24), BitAnd(x[2], y[2], 20), BitAnd(x[3], y[3], 20)>>

\* x << 1, the bit shifted out of bit 63 is lost
U64Shl1(x) ==
    LET l2 == 2 * x[3]
        m2 == 2 * x[2] + (l2 \div R20)
        h2 == 2 * x[1] + (m2 \div R20)
    IN  <<h2 % R24, m2 % R20, l2 % R20>>

RECURSIVE U64Shl(_, _)
U64Shl(x, k) ==
    IF k >= 20 THEN U64Shl(<<(x[1] % 16) * R20 + x[2], x[3], 0>>, k - 20)
    ELSE IF k > 10 THEN U64Shl(U64Shl(x, 10), k - 10)
    ELSE LET p == 2^k
             l2 == x[3] * p
             m2 == x[2] * p + (l2 \div R20)
             h2 == (x[1] % (R24 \div p)) * p + (m2 \div R20)
         IN  <<h2, m2 % R20, l2 % R20>>

\* x >> 1
U64Shr1(x) ==
    <<x[1] \div 2,
      (x[2] \div 2) + (x[1] % 2) * (R20 \div 2),
      (x[3] \div 2) + (x[2] % 2) * (R20 \div 2)>>

RECURSIVE U64Shr(_, _)
U64Shr(x, k) ==
    IF k >= 20 THEN U64Shr(<<x[1] \div R20, x[1] % R20, x[2]>>, k - 20)
    ELSE IF k > 10 THEN U64Shr(U64Shr(x, 10), k - 10)
    ELSE LET p == 2^k
         IN  <<x[1] \div p,
               (x[2] \div p) + (x[1] % p) * (R20 \div p),
               (x[3] \div p) + (x[2] % p) * (R20 \div p)>>

\* wrapping addition
U64Add(x, y) ==
    LET l2 == x[3] + y[3]
        m2 == x[2] + y[2] + (l2 \div R20)
        h2 == x[1] + y[1] + (m2 \div R20)
    IN  <<h2 % R24, m2 % R20, l2 % R20>>

\* wrapping subtraction
U64Sub(x, y) ==
    LET l2 == x[3] - y[3]
        m2 == x[2] - y[2] - (IF l2 < 0 THEN 1 ELSE 0)
        h2 == x[1] - y[1] - (IF m2 < 0 THEN 1 ELSE 0)
    IN  <<h2 % R24, m2 % R20, l2 % R20>>

U64Lt(x, y) ==
    \/ x[1] < y[1]
    \/ x[1] = y[1] /\ x[2] < y[2]
    \/ x[1] = y[1] /\ x[2] = y[2] /\ x[3] < y[3]
U64Le(x, y) == x = y \/ U64Lt(x, y)

\* a signed offset of small magnitude (|d| < 2^20) as i64 cast to u64
I64AsU64(d) == IF d >= 0 THEN <<0, 0, d>> ELSE <<R24 - 1, R20 - 1, R20 + d>>

-----------------------------------------------------------------------------
(* The event bus (Bus::new(BUS_SIZE), main.rs:683) and the sink threads.   *)
(* The bus is a ring of BUS_SIZE + 1 seats, one of them padding: the       *)
(* producer writes at tail, every reader reads at its own head.            *)

NumSeats == BUS_SIZE + 1
NoEntry == [kind |-> "none"]

\* the seats sink s has not read yet, oldest first
RECURSIVE SeatsFrom(_, _)
SeatsFrom(h, t) ==
    IF h = t THEN <<>> ELSE <<ring[h]>> \o SeatsFrom((h + 1) % NumSeats, t)
Pending(s) == SeatsFrom(head[s], tail)

\* the seat after tail still holds an entry some reader has not taken
BusFull == \E s \in Sinks : (tail + 1) % NumSeats = head[s]

\* Entries the producer of SpecBus broadcasts.
BusEntries ==
    { [kind |-> "BPMiss", timestamp |-> U64Of(1)],
      [kind |-> "Panic", timestamp |-> U64Zero] }

\* C2 mutant: a broadcast that does not wait for a free seat
Broadcast_NoBlock(e) ==
    /\ dpc = "loop" /\ ~busClosed
    /\ Len(emitted) < MaxEntries
    /\ ring' = [ring EXCEPT ![tail] = e]
    /\ tail' = (tail + 1) % NumSeats
    /\ emitted' = Append(emitted, e)
    /\ UNCHANGED <<unwVars, fnVars, sinkVars, decVars, busClosed, head, spc, rxlog, flushes>>

\* bus.broadcast(entry): blocks while the bus is full
Broadcast(e) ==
    /\ dpc = "loop" /\ ~busClosed
    /\ Len(emitted) < MaxEntries
    /\ ~BusFull
    /\ ring' = [ring EXCEPT ![tail] = e]
    /\ tail' = (tail + 1) % NumSeats
    /\ emitted' = Append(emitted, e)
    /\ UNCHANGED <<unwVars, fnVars, sinkVars, decVars, busClosed, head, spc, rxlog, flushes>>

\* drop(bus) at the end of decode_trace
DropBus ==
    /\ dpc = "loop" /\ ~busClosed
    /\ busClosed' = TRUE
    /\ dpc' = "ok"
    /\ UNCHANGED <<unwVars, fnVars, sinkVars, pc, timestamp, prv, ctx, u_unknown_ctx, bp_counter, decoder_cache,
                   runtime_cfg, packet, npackets, lastRead, emitCtx, emitted, busVars>>

\* C1 mutant: the entry is taken off the bus but not handed to the sink
TryRecvOk_Skip(s) ==
    /\ spc[s] = "recv"
    /\ head[s] # tail
    /\ head' = [head EXCEPT ![s] = (head[s] + 1) % NumSeats]
    /\ UNCHANGED <<unwVars, fnVars, sinkVars, decVars, emitted, busClosed, ring, tail, spc, rxlog, flushes>>

\* try_recv() = Ok(entry): _receive_entry(entry)
TryRecvOk(s) ==
    /\ spc[s] = "recv"
    /\ head[s] # tail
    /\ rxlog' = [rxlog EXCEPT ![s] = Append(rxlog[s], ring[head[s]])]
    /\ head' = [head EXCEPT ![s] = (head[s] + 1) % NumSeats]
    /\ UNCHANGED <<unwVars, fnVars, sinkVars, decVars, emitted, busClosed, ring, tail, spc, flushes>>

\* C3 mutant: the loop flushes on disconnect but does not return
TryRecvDisconnected_NoReturn(s) ==
    /\ spc[s] = "recv"
    /\ head[s] = tail /\ busClosed
    /\ flushes' = [flushes EXCEPT ![s] = flushes[s] + 1]
    /\ UNCHANGED <<unwVars, fnVars, sinkVars, decVars, emitted, busClosed, ring, tail, head, spc, rxlog>>

\* try_recv() = Err(Disconnected): _flush() and return
TryRecvDisconnected(s) ==
    /\ spc[s] = "recv"
    /\ head[s] = tail /\ busClosed
    /\ flushes' = [flushes EXCEPT ![s] = flushes[s] + 1]
    /\ spc' = [spc EXCEPT ![s] = "done"]
    /\ UNCHANGED <<unwVars, fnVars, sinkVars, decVars, emitted, busClosed, ring, tail, head, rxlog>>

\* try_recv() = Err(Empty): go to thread::yield_now()
TryRecvEmpty(s) ==
    /\ spc[s] = "recv"
    /\ head[s] = tail /\ ~busClosed
    /\ spc' = [spc EXCEPT ![s] = "yield"]
    /\ UNCHANGED <<unwVars, fnVars, sinkVars, decVars, emitted, busClosed, ring, tail, head, rxlog, flushes>>

\* thread::yield_now() returns; the loop tries again
YieldNow(s) ==
    /\ spc[s] = "yield"
    /\ spc' = [spc EXCEPT ![s] = "recv"]
    /\ UNCHANGED <<unwVars, fnVars, sinkVars, decVars, emitted, busClosed, ring, tail, head, rxlog, flushes>>

\* one step of sink s's try_receive_loop
SinkStep(s) ==
    \/ TryRecvOk(s)
    \/ TryRecvDisconnected(s)
    \/ TryRecvEmpty(s)
    \/ YieldNow(s)

\* the bus and the sinks as main builds them before it spawns the threads
BusInit ==
    /\ ring = [i \in 0..BUS_SIZE |-> NoEntry]
    /\ tail = 0
    /\ head = [s \in Sinks |-> 0]
    /\ spc = [s \in Sinks |-> "recv"]
    /\ rxlog = [s \in Sinks |-> <<>>]
    /\ flushes = [s \in Sinks |-> 0]
    /\ emitted = <<>>
    /\ busClosed = FALSE

NoPacket ==
    [is_compressed |-> FALSE, c_header |-> "CNa", f_header |-> "FRes1",
     func3 |-> <<"None", "None">>, target_address |-> U64Zero, from_address |-> U64Zero,
     target_prv |-> "PrvUser", target_ctx |-> U64Zero, from_prv |-> "PrvUser",
     timestamp |-> U64Zero]

\* the decoder's locals before the first packet is read
DecoderBlank ==
    /\ pc = U64Zero
    /\ timestamp = U64Zero
    /\ prv = "PrvUser"
    /\ ctx = U64Zero
    /\ u_unknown_ctx = FALSE
    /\ bp_counter = <<>>
    /\ decoder_cache = <<>>
    /\ runtime_cfg = [br_mode |-> "BrTarget", bp_entries |-> 0]
    /\ packet = NoPacket
    /\ npackets = 0
    /\ lastRead = [st |-> "none", n |-> 0, used |-> 0]
    /\ emitCtx = <<>>

\* StackUnwinder::new (backend/stack_unwinder.rs:33-44), before any entry
UnwinderNew ==
    /\ upc = "new"
    /\ frame_stack = <<>>
    /\ curr_prv = "PrvMachine"
    /\ update = [some |-> FALSE]
    /\ lastEntry = NoEntry
    /\ prevFrames = <<>>
    /\ prevPrv = "PrvMachine"
    /\ hart_prv = "PrvMachine"
    /\ nsteps = 0

\* no function was called yet
NoCall == op = "none" /\ arg = <<>> /\ ret = <<>>

\* PrvBreakdownReceiver::new
PrvBreakdownNew ==
    [st |-> "ok", curr_prv |-> "PrvUser", u_prv_cycles |-> U64Zero,
     k_prv_cycles |-> U64Zero, m_prv_cycles |-> U64Zero, prev_timestamp |-> U64Zero]

\* AfdoReceiver::new
AfdoNew == [range_map |-> <<>>, branch_map |-> <<>>, last_record |-> <<U64Zero, U64Zero>>]

\* SpeedscopeReceiver::new
SpeedscopeNew ==
    [st |-> "ok", events |-> <<>>, start |-> U64Zero, end |-> U64Zero, curr_ctx |-> U64Zero]

\* no sink has received an entry; overflow_checks is the build's setting
SinksNew(overflow_checks) ==
    /\ sk = [active |-> "none", n |-> 0, entry |-> NoEntry, sync_ts |-> U64Zero,
             last_to |-> U64Zero, checks |-> overflow_checks]
    /\ prvb = PrvBreakdownNew
    /\ afdo = AfdoNew
    /\ spd = SpeedscopeNew

InitBus == dpc = "loop" /\ DecoderBlank /\ BusInit /\ UnwinderNew /\ NoCall /\ SinksNew(TRUE)

ProducerBroadcast == \E e \in BusEntries : Broadcast(e)

NextBus ==
    \/ ProducerBroadcast
    \/ DropBus
    \/ \E s \in Sinks : TryRecvOk(s)
    \/ \E s \in Sinks : TryRecvDisconnected(s)
    \/ \E s \in Sinks : TryRecvEmpty(s)
    \/ \E s \in Sinks : YieldNow(s)

SpecBus == InitBus /\ [][NextBus]_vars

\* Every sink thread is scheduled again and again (the OS scheduler is fair
\* to a runnable thread; yield_now only gives up the time slice).
FairSpecBus == SpecBus /\ \A s \in Sinks : WF_vars(SinkStep(s))

-----------------------------------------------------------------------------
(* Claims about the bus.                                                   *)

IsPrefix(a, b) == Len(a) <= Len(b) /\ a = SubSeq(b, 1, Len(a))

\* C1: for every sink and every interleaving, the entries handed to
\* _receive_entry are the entries the decoder broadcast, in the same order,
\* none missing and none twice: the sink's log is always a prefix of the
\* broadcast sequence, and is the whole of it when the loop has returned.
C1_SinkSeesBroadcastOrder ==
    \A s \in Sinks :
        /\ IsPrefix(rxlog[s], emitted)
        /\ spc[s] = "done" => rxlog[s] = emitted

\* a sink has returned with more entries than the ring has seats, while the
\* other is still behind
C1_Witness ==
    /\ spc[1] = "done" /\ Len(rxlog[1]) > NumSeats
    /\ rxlog[1][1] # rxlog[1][2]
    /\ spc[2] # "done" /\ Len(rxlog[2]) < Len(emitted)

\* C2: the entries broadcast and not yet received by any one sink never
\* exceed the bus capacity, they are all still on the bus in order (nothing
\* dropped or overwritten), and a broadcast happens only when the slowest
\* sink leaves a free seat.
C2_BackpressureState ==
    \A s \in Sinks :
        /\ Len(emitted) - Len(rxlog[s]) <= BUS_SIZE
        /\ spc[s] # "done" =>
              Pending(s) = SubSeq(emitted, Len(rxlog[s]) + 1, Len(emitted))

-----------------------------------------------------------------------------
(* The PC model and the address codec (frontend/decoder.rs:24-95).         *)

ADDR_BITS == 40
\* (1 << ADDR_BITS) - 1
ADDR_MASK == <<0, R20 - 1, R20 - 1>>
ADDR_EXTENDER_BITS == 64 - ADDR_BITS
\* (1 << ADDR_EXTENDER_BITS) - 1
SIGNED_ADDR_EXTENDER_MASK == <<0, 2^(ADDR_EXTENDER_BITS - 20) - 1, R20 - 1>>
UNSIGNED_ADDR_EXTENDER_MASK == U64Zero

\* PC::new(unshifted_addr)
PC_new(unshifted_addr) == U64Shl1(unshifted_addr)

\* PC::compute_from_xored_target_addr
compute_from_xored_target_addr(addr, target_addr) ==
    LET refunded_delta == U64Shl1(target_addr)
    IN  U64Xor(U64And(addr, ADDR_MASK), refunded_delta)

\* PC::get_addr: extends the sign when addr >> 39 is exactly 1
get_addr(addr) ==
    LET sign_bit == U64Shr(addr, ADDR_BITS - 1)
        extender == IF sign_bit = U64Of(1) THEN SIGNED_ADDR_EXTENDER_MASK
                    ELSE UNSIGNED_ADDR_EXTENDER_MASK
    IN  U64Or(addr, U64Shl(extender, ADDR_BITS))

\* a refund that keeps the low ADDR_BITS bits only
refund_addr_Masked(addr) == U64And(U64Shl1(addr), ADDR_MASK)

\* refund_addr
refund_addr(addr) ==
    LET shifted_addr == U64Shl1(addr)
        sign_bit == U64Shr(shifted_addr, ADDR_BITS - 1)
        extender == IF sign_bit = U64Of(1) THEN SIGNED_ADDR_EXTENDER_MASK
                    ELSE UNSIGNED_ADDR_EXTENDER_MASK
    IN  U64Or(shifted_addr, U64Shl(extender, ADDR_BITS))

-----------------------------------------------------------------------------
(* The instruction index the decoder is given (common/insn_index.rs): one  *)
(* map per indexed user ASID, the kernel map and the machine map.  The     *)
(* records carry what the decoder reads of an Insn.                        *)

Plain(len)       == [kind |-> "plain", len |-> len, offset |-> 0]
Branch(len, off) == [kind |-> "branch", len |-> len, offset |-> off]
DJump(len, off)  == [kind |-> "djump", len |-> len, offset |-> off]
IJump(len)       == [kind |-> "ijump", len |-> len, offset |-> 0]

\* C7 mutant: a direct jump passes for a branch
is_branch_OrJump(insn) == insn.kind \in {"branch", "djump"}

is_branch(insn)        == insn.kind = "branch"
is_direct_jump(insn)   == insn.kind = "djump"
is_indirect_jump(insn) == insn.kind = "ijump"
is_cfc_insn(insn)      == is_branch(insn) \/ is_direct_jump(insn) \/ is_indirect_jump(insn)

\* addresses of the sample binaries
UA(l) == <<0, 0, l>>                      \* user text, 0x0000_0000_000l
UTop  == <<0, R20 \div 2 - 1, R20 - 4>>   \* 0x0000_007f_ffff_fffc
KA(l) == <<R24 - 1, 786432, l>>           \* kernel text, 0xffff_ffc0_000l
MA(l) == <<0, 2048, l>>                   \* firmware text, 0x0000_0000_800l

\* the user binary of ASID 7: A at 0x1000, B at 0x1100, and a branch in the
\* last word below 2^39
UserMap7 ==
    (UA(4096) :> Plain(4))        @@   \* 0x1000
    (UA(4100) :> Branch(4, 8))    @@   \* 0x1004 -> 0x100c
    (UA(4104) :> DJump(4, 248))   @@   \* 0x1008 -> 0x1100
    (UA(4108) :> Plain(2))        @@   \* 0x100c
    (UA(4110) :> IJump(2))        @@   \* 0x100e
    (UA(4112) :> DJump(4, 0))     @@   \* 0x1010: an idle loop, j .
    (UA(4352) :> Plain(4))        @@   \* 0x1100
    (UA(4356) :> Branch(4, -4))   @@   \* 0x1104 -> 0x1100
    (UA(4360) :> IJump(4))        @@   \* 0x1108
    (UTop     :> Branch(4, 4))         \* 0x7f_ffff_fffc -> 0x80_0000_0000

KernelMap ==
    (KA(4096) :> Plain(4))        @@   \* handler
    (KA(4100) :> Branch(4, 8))    @@
    (KA(4104) :> Plain(4))        @@   \* sret
    (KA(4108) :> IJump(4))

MachineMap ==
    (MA(0) :> Plain(4))           @@
    (MA(4) :> Plain(4))                \* mret

EmptyMap == <<>>

\* static_cfg.application_binary_asid_tuples: the indexed user ASIDs
IndexedAsids == {U64Of(7)}
u_insn_maps == [a \in IndexedAsids |-> UserMap7]

\* find_ctx
find_ctx(c) == c \in IndexedAsids

\* InstructionIndex::get; "panic" for a privilege without a map
InsnIndexGet(space, c) ==
    CASE space = "PrvUser"       -> [st |-> "ok", map |-> IF c \in DOMAIN u_insn_maps
                                                          THEN u_insn_maps[c] ELSE EmptyMap]
      [] space = "PrvSupervisor" -> [st |-> "ok", map |-> KernelMap]
      [] space = "PrvMachine"    -> [st |-> "ok", map |-> MachineMap]
      [] OTHER                   -> [st |-> "panic", map |-> EmptyMap]

-----------------------------------------------------------------------------
(* The packet reader (frontend/packet.rs).  A stream is a sequence of      *)
(* bytes; every read names the position i of the next byte.  A result is   *)
(* "ok", "err" (the Err of a Result) or "panic" (a failed assertion).      *)

\* first-byte layout
C_HEADER_MASK == 3
FHEADER_OFFSET == 2
SYNC_TYPE_OFFSET == 5
TRAP_TYPE_OFFSET == 5

\* CHeader::from(first_byte & C_HEADER_MASK)
CHeaderFrom(v) ==
    CASE v = 0 -> "CNa" [] v = 1 -> "CTb" [] v = 2 -> "CNt" [] OTHER -> "CIj"

\* FHeader::from(CHeader)
FHeaderOfC(c) ==
    CASE c = "CTb" -> "FTb" [] c = "CNt" -> "FNt" [] c = "CIj" -> "FIj" [] OTHER -> "FRes1"

\* FHeader::from((first_byte & F_HEADER_MASK) >> FHEADER_OFFSET)
FHeaderFrom(v) ==
    CASE v = 1 -> "FTb" [] v = 2 -> "FNt" [] v = 3 -> "FUj" [] v = 4 -> "FIj"
      [] v = 5 -> "FTrap" [] v = 6 -> "FSync" [] v = 0 -> "FRes1" [] OTHER -> "FRes2"

\* TrapType::from; "Invalid" stands for the conversion's panic
TrapTypeFrom(v) ==
    CASE v = 0 -> "TNone" [] v = 1 -> "TException" [] v = 2 -> "TInterrupt"
      [] v = 4 -> "TReturn" [] OTHER -> "Invalid"

\* SyncType::from (sync_type.rs:11-21); "Invalid" stands for its panic
SyncTypeFrom(v) ==
    CASE v = 0 -> "SyncNone" [] v = 1 -> "SyncStart" [] v = 2 -> "SyncPeriodic"
      [] v = 4 -> "SyncEnd" [] OTHER -> "Invalid"

\* Prv::from (prv.rs:11-21); "Invalid" stands for its panic
PrvFrom(v) ==
    CASE v = 0 -> "PrvUser" [] v = 1 -> "PrvSupervisor" [] v = 2 -> "PrvHypervisor"
      [] v = 3 -> "PrvMachine" [] OTHER -> "Invalid"

\* BrMode::from; "Invalid" stands for the conversion's panic
BrModeFrom(v) ==
    CASE v = 0 -> "BrTarget" [] v = 1 -> "BrPredict" [] OTHER -> "Invalid"

BP_MODE_MASK == 3
BP_ENTRY_OFFSET == 2
BP_BASE_VALUE == 64

\* read_u8: read_exact of one byte
read_u8(w, i) ==
    IF i <= Len(w) THEN [st |-> "ok", v |-> w[i], next |-> i + 1]
    ELSE [st |-> "err", v |-> 0, next |-> i]

\* read_varint, the loop that collects the bytes (at most 10)
RECURSIVE VarintBytes(_, _, _)
VarintBytes(w, i, count) ==
    LET b == read_u8(w, i) IN
    IF b.st = "err" THEN [st |-> "err", bytes |-> <<>>, next |-> i]
    ELSE IF count = 10 THEN [st |-> "err", bytes |-> <<>>, next |-> b.next]
    ELSE IF b.v >= 128 THEN [st |-> "ok", bytes |-> <<b.v>>, next |-> b.next]
    ELSE LET r == VarintBytes(w, b.next, count + 1)
         IN  [st |-> r.st, bytes |-> <<b.v>> \o r.bytes, next |-> r.next]

\* a fold that takes the last byte as the least significant one
RECURSIVE VarintValue_LastLow(_, _, _)
VarintValue_LastLow(bytes, k, value) ==
    IF k = 0 THEN value
    ELSE VarintValue_LastLow(bytes, k - 1,
             U64Or(U64Shl(value, 7), U64Of(bytes[Len(bytes) + 1 - k] % 128)))

\* read_varint, the fold over the bytes in reverse
RECURSIVE VarintValue(_, _, _)
VarintValue(bytes, k, value) ==
    IF k = 0 THEN value
    ELSE VarintValue(bytes, k - 1, U64Or(U64Shl(value, 7), U64Of(bytes[k] % 128)))

\* read_varint: (value, count)
read_varint(w, i) ==
    LET r == VarintBytes(w, i, 0) IN
    IF r.st = "ok"
    THEN [st |-> "ok", value |-> VarintValue(r.bytes, Len(r.bytes), U64Zero),
          count |-> Len(r.bytes), next |-> r.next]
    ELSE [st |-> "err", value |-> U64Zero, count |-> 0, next |-> r.next]

\* read_prv: (from_prv, target_prv), panics on a bad checksum
read_prv(w, i) ==
    LET b == read_u8(w, i) IN
    IF b.st = "err" THEN [st |-> "err", next |-> i]
    ELSE LET from_prv == PrvFrom(b.v % 8)
             target_prv == PrvFrom((b.v \div 8) % 8)
         IN  IF from_prv = "Invalid" \/ target_prv = "Invalid" \/ (b.v \div 64) % 4 # 2
             THEN [st |-> "panic", next |-> b.next]
             ELSE [st |-> "ok", from_prv |-> from_prv, target_prv |-> target_prv,
                   next |-> b.next]

\* a read in progress: status, the packet as filled so far, the bytes counted
\* in bytes_read, the bytes taken from the stream
Rd(st, pkt, n, used) == [st |-> st, pkt |-> pkt, n |-> n, used |-> used]

\* let x = e; ... with e evaluated once
Bind(v, F(_)) == F(v)

\* packet.<field> = value; bytes_read += count
PutVarint(s, field, v) ==
    IF v.st = "err" THEN [s EXCEPT !.st = "err", !.used = v.next - 1]
    ELSE [s EXCEPT !.pkt = [@ EXCEPT ![field] = v.value], !.n = @ + v.count,
                   !.used = v.next - 1]

\* let (value, count) = read_varint(stream)?; ...
VarintField(w, s, field) ==
    IF s.st # "ok" THEN s ELSE PutVarint(s, field, read_varint(w, s.used + 1))

\* packet.from_prv, packet.target_prv; counted is 1 where bytes_read += 1
PutPrv(s, pr, counted) ==
    IF pr.st # "ok" THEN [s EXCEPT !.st = pr.st, !.used = pr.next - 1]
    ELSE [s EXCEPT !.pkt = [@ EXCEPT !.from_prv = pr.from_prv, !.target_prv = pr.target_prv],
                   !.n = @ + counted, !.used = pr.next - 1]

\* let (from_prv, target_prv) = read_prv(stream)?; ...
PrvField(w, s, counted) ==
    IF s.st # "ok" THEN s ELSE PutPrv(s, read_prv(w, s.used + 1), counted)

\* assert!(from_prv == Prv::PrvUser)
FromUser(s) ==
    IF s.st = "ok" /\ s.pkt.from_prv # "PrvUser" THEN [s EXCEPT !.st = "panic"] ELSE s

\* packet.f_header = f_header; packet.c_header = CHeader::CNa
Done(s, f_header) ==
    IF s.st # "ok" THEN s
    ELSE [s EXCEPT !.pkt = [@ EXCEPT !.f_header = f_header, !.c_header = "CNa"]]

\* read_packet, FTb | FNt | FIj: varint(timestamp)
ReadBodyTs(w, s, f_header) == Done(VarintField(w, s, "timestamp"), f_header)

\* read_packet, FUj: varint(target_address) varint(timestamp)
ReadBodyUj(w, s, f_header) ==
    Done(VarintField(w, VarintField(w, s, "target_address"), "timestamp"), f_header)

\* read_packet, FSync: prv byte, varint(target_ctx), varint(target_address),
\* varint(timestamp); the prv byte is not added to bytes_read
ReadBodySync(w, s, f_header, first_byte) ==
    Bind(SyncTypeFrom(first_byte \div 2^SYNC_TYPE_OFFSET), LAMBDA sync_type :
      IF sync_type \in {"Invalid", "SyncStart"} THEN [s EXCEPT !.st = "panic"]
      ELSE Done(VarintField(w, VarintField(w, VarintField(w,
                  FromUser(PrvField(w,
                      [s EXCEPT !.pkt = [@ EXCEPT !.func3 = <<"SyncType", sync_type>>]], 0)),
                  "target_ctx"), "target_address"), "timestamp"), f_header))

\* read_packet, FTrap: the context is sent only on a return to user mode
TrapCtx(w, s) ==
    IF s.st = "ok" /\ s.pkt.func3 = <<"TrapType", "TReturn">> /\ s.pkt.target_prv = "PrvUser"
    THEN VarintField(w, s, "target_ctx") ELSE s

\* read_packet, FTrap: prv byte, [varint(target_ctx)], varint(from_address),
\* varint(target_address), varint(timestamp)
ReadBodyTrap(w, s, f_header, first_byte) ==
    Bind(TrapTypeFrom(first_byte \div 2^TRAP_TYPE_OFFSET), LAMBDA trap_type :
      IF trap_type = "Invalid" THEN [s EXCEPT !.st = "panic"]
      ELSE Done(VarintField(w, VarintField(w, VarintField(w,
                  TrapCtx(w, PrvField(w,
                      [s EXCEPT !.pkt = [@ EXCEPT !.func3 = <<"TrapType", trap_type>>]], 1)),
                  "from_address"), "target_address"), "timestamp"), f_header))

\* read_packet, the uncompressed headers
ReadBody(w, s, f_header, first_byte) ==
    CASE f_header \in {"FTb", "FNt", "FIj"} -> ReadBodyTs(w, s, f_header)
      [] f_header = "FUj"   -> ReadBodyUj(w, s, f_header)
      [] f_header = "FSync" -> ReadBodySync(w, s, f_header, first_byte)
      [] f_header = "FTrap" -> ReadBodyTrap(w, s, f_header, first_byte)
      [] OTHER -> [s EXCEPT !.st = "panic"]

\* read_packet: refills pkt from the bytes of w and returns the byte count
read_packet(w, pkt) ==
    Bind(read_u8(w, 1), LAMBDA fb :
      IF fb.st = "err" THEN Rd("err", pkt, 0, 0)
      ELSE IF CHeaderFrom(fb.v % (C_HEADER_MASK + 1)) # "CNa"
      THEN Rd("ok", [pkt EXCEPT !.timestamp = U64Of(fb.v \div 4),
                                !.f_header = FHeaderOfC(CHeaderFrom(fb.v % (C_HEADER_MASK + 1))),
                                !.c_header = CHeaderFrom(fb.v % (C_HEADER_MASK + 1)),
                                !.is_compressed = TRUE], 1, 1)
      ELSE ReadBody(w, Rd("ok", [pkt EXCEPT !.is_compressed = FALSE], 1, 1),
                    FHeaderFrom((fb.v \div 2^FHEADER_OFFSET) % 8), fb.v))

\* read_first_packet: let runtime_cfg_raw = read_u8(stream)?; br_mode, bp_entries
PutCfg(s, b) ==
    IF b.st = "err" THEN [s EXCEPT !.st = "err"]
    ELSE IF BrModeFrom(b.v % (BP_MODE_MASK + 1)) = "Invalid"
         THEN [s EXCEPT !.st = "panic", !.used = b.next - 1]
    ELSE [s EXCEPT !.cfg = [br_mode |-> BrModeFrom(b.v % (BP_MODE_MASK + 1)),
                            bp_entries |-> (b.v \div 2^BP_ENTRY_OFFSET) * BP_BASE_VALUE],
                   !.used = b.next - 1]

CfgField(w, s) == IF s.st # "ok" THEN s ELSE PutCfg(s, read_u8(w, s.used + 1))

\* read_first_packet: the checks of the first byte
FirstHeader(first_byte) ==
    IF CHeaderFrom(first_byte % (C_HEADER_MASK + 1)) # "CNa" THEN "err"
    ELSE IF FHeaderFrom((first_byte \div 2^FHEADER_OFFSET) % 8) # "FSync" THEN "err"
    ELSE IF SyncTypeFrom(first_byte \div 2^SYNC_TYPE_OFFSET) = "Invalid" THEN "panic"
    ELSE IF SyncTypeFrom(first_byte \div 2^SYNC_TYPE_OFFSET) # "SyncStart" THEN "err"
    ELSE "ok"

\* read_first_packet: the packet and the runtime configuration
read_first_packet(w) ==
    Bind([st |-> "ok", pkt |-> NoPacket, n |-> 0, used |-> 0,
          cfg |-> [br_mode |-> "BrTarget", bp_entries |-> 0]], LAMBDA none :
    Bind(read_u8(w, 1), LAMBDA fb :
      IF fb.st = "err" THEN [none EXCEPT !.st = "err"]
      ELSE IF FirstHeader(fb.v) # "ok" THEN [none EXCEPT !.st = FirstHeader(fb.v), !.used = 1]
      ELSE VarintField(w, VarintField(w, CfgField(w, VarintField(w,
               FromUser(PrvField(w,
                   [none EXCEPT !.pkt = [@ EXCEPT !.f_header = "FSync",
                                                  !.func3 = <<"SyncType", "SyncStart">>],
                                !.n = 1, !.used = 1], 1)),
               "target_ctx")), "target_address"), "timestamp")))

-----------------------------------------------------------------------------
(* The branch predictor (BpDoubleSaturatingCounter): a direct-mapped table *)
(* of 2-bit saturating counters indexed by pc mod bp_entries, every        *)
(* counter starting weakly not-taken.  Only the counters that were touched *)
(* are stored.                                                             *)

BP_INIT == 1

\* x mod e for a u64 x and 0 < e < 2^12
U64Mod(x, e) ==
    LET r20 == R20 % e
        r40 == (r20 * r20) % e
    IN  ((((x[1] % e) * r40) % e) + (((x[2] % e) * r20) % e) + (x[3] % e)) % e

BpGet(bp, i) == IF i \in DOMAIN bp THEN bp[i] ELSE BP_INIT

\* predict(pc, hint): the counter's MSB before the update
BpPredict(bp, entries, pcv, hint) ==
    IF entries = 0 THEN [st |-> "panic", taken |-> FALSE, bp |-> bp]
    ELSE LET i == U64Mod(pcv, entries)
             c == BpGet(bp, i)
             c2 == IF hint THEN (IF c < 3 THEN c + 1 ELSE 3)
                   ELSE (IF c > 0 THEN c - 1 ELSE 0)
         IN  [st |-> "ok", taken |-> c >= 2,
              bp |-> [j \in DOMAIN bp \cup {i} |-> IF j = i THEN c2 ELSE bp[j]]]

-----------------------------------------------------------------------------
(* Straight-line stepping (frontend/decoder.rs:97-152).                    *)

\* step_bb's loop when direct jumps end a block (BrTarget)
RECURSIVE WalkTarget(_, _)
WalkTarget(p, map) ==
    IF p \notin DOMAIN map THEN [st |-> "missing", pc |-> p]
    ELSE IF is_cfc_insn(map[p]) THEN [st |-> "ok", pc |-> p]
    ELSE WalkTarget(U64Add(p, U64Of(map[p].len)), map)

\* step_bb's loop when direct jumps are followed (BrPredict); "hang" when
\* the walk comes back to a pc it has visited
RECURSIVE WalkPredict(_, _, _)
WalkPredict(p, map, seen) ==
    IF p \notin DOMAIN map THEN [st |-> "missing", pc |-> p]
    ELSE IF p \in seen THEN [st |-> "hang", pc |-> p]
    ELSE IF is_branch(map[p]) \/ is_indirect_jump(map[p]) THEN [st |-> "ok", pc |-> p]
    ELSE IF is_direct_jump(map[p])
         THEN WalkPredict(U64Add(p, I64AsU64(map[p].offset)), map, seen \cup {p})
    ELSE WalkPredict(U64Add(p, U64Of(map[p].len)), map, seen \cup {p})

\* a step_bb that memoizes the start of the block in place of its end
step_bb_CachesStart(pcv, map, br_mode, cache) ==
    IF pcv \in DOMAIN cache THEN [st |-> "ok", pc |-> cache[pcv], cache |-> cache]
    ELSE LET w == IF br_mode = "BrTarget" THEN WalkTarget(pcv, map)
                  ELSE WalkPredict(pcv, map, {})
         IN  [st |-> w.st, pc |-> w.pc,
              cache |-> IF w.st = "ok" THEN (pcv :> pcv) @@ cache ELSE cache]

\* step_bb: the end of the block that starts at pcv, memoized in the cache
step_bb(pcv, map, br_mode, cache) ==
    IF pcv \in DOMAIN cache THEN [st |-> "ok", pc |-> cache[pcv], cache |-> cache]
    ELSE LET w == IF br_mode = "BrTarget" THEN WalkTarget(pcv, map)
                  ELSE WalkPredict(pcv, map, {})
         IN  [st |-> w.st, pc |-> w.pc,
              cache |-> IF w.st = "ok" THEN (pcv :> w.pc) @@ cache ELSE cache]

\* step_bb_until
RECURSIVE step_bb_until(_, _, _)
step_bb_until(p, map, target_pc) ==
    IF p \notin DOMAIN map THEN [st |-> "missing", pc |-> p]
    ELSE IF is_branch(map[p]) \/ is_direct_jump(map[p]) THEN [st |-> "ok", pc |-> p]
    ELSE IF p = target_pc THEN [st |-> "ok", pc |-> p]
    ELSE step_bb_until(U64Add(p, U64Of(map[p].len)), map, target_pc)

-----------------------------------------------------------------------------
(* Entries (backend/event.rs).                                             *)

EvTakenBranch(arc, ts)     == [kind |-> "TakenBranch", timestamp |-> ts, arc |-> arc]
EvNonTakenBranch(arc, ts)  == [kind |-> "NonTakenBranch", timestamp |-> ts, arc |-> arc]
EvInferrableJump(arc, ts)  == [kind |-> "InferrableJump", timestamp |-> ts, arc |-> arc]
EvUninferableJump(arc, ts) == [kind |-> "UninferableJump", timestamp |-> ts, arc |-> arc]
EvTrap(reason, prv_arc, arc, c, ts) ==
    [kind |-> "Trap", timestamp |-> ts, reason |-> reason, prv_arc |-> prv_arc,
     arc |-> arc, ctx |-> c]
\* a SyncStart that reports the reset context instead of the packet's
EvSyncStart_ZeroCtx(cfg, start_pc, start_prv, start_ctx, ts) ==
    [kind |-> "SyncStart", timestamp |-> ts, runtime_cfg |-> cfg, start_pc |-> start_pc,
     start_prv |-> start_prv, start_ctx |-> U64Zero]
EvSyncStart(cfg, start_pc, start_prv, start_ctx, ts) ==
    [kind |-> "SyncStart", timestamp |-> ts, runtime_cfg |-> cfg, start_pc |-> start_pc,
     start_prv |-> start_prv, start_ctx |-> start_ctx]
EvSyncEnd(end_pc, ts) == [kind |-> "SyncEnd", timestamp |-> ts, end_pc |-> end_pc]
EvBPHit(hit_count, ts) == [kind |-> "BPHit", timestamp |-> ts, hit_count |-> hit_count]
EvBPMiss(ts) == [kind |-> "BPMiss", timestamp |-> ts]
EvPanic == [kind |-> "Panic", timestamp |-> U64Zero]

\* TrapReason::from(TrapType); "panic" for TNone
TrapReasonFrom(t) ==
    CASE t = "TException" -> "Exception" [] t = "TInterrupt" -> "Interrupt"
      [] t = "TReturn" -> "Return" [] OTHER -> "panic"

-----------------------------------------------------------------------------
(* decode_trace (frontend/decoder.rs:163-472): what one iteration of the   *)
(* packet loop does to the decoder's locals d and which entries it         *)
(* broadcasts.  An outcome is "cont" (continue), "break" (leave the loop), *)
(* "panic" (the thread panics) or "hang" (a walk that never returns).      *)

Cur ==
    [pc |-> pc, timestamp |-> timestamp, prv |-> prv, ctx |-> ctx,
     u |-> u_unknown_ctx, bp |-> bp_counter, cache |-> decoder_cache]

Outcome(st, evs, d) == [st |-> st, evs |-> evs, d |-> d]

\* lines 223-235: FSync
DecodeFSyncOp(pkt, d, map) ==
    Bind(step_bb_until(get_addr(d.pc), map, refund_addr(pkt.target_address)), LAMBDA su :
      IF su.st # "ok" THEN Outcome("panic", <<>>, d)
      ELSE Outcome("break", <<EvSyncEnd(get_addr(su.pc), pkt.timestamp)>>,
                   [d EXCEPT !.pc = su.pc]))

\* lines 264-294: the context switch of a return to user mode
TrapCtxSwitch(pkt, d, report_ctx) ==
    IF ~report_ctx THEN d
    ELSE IF find_ctx(pkt.target_ctx)
         THEN [d EXCEPT !.cache = IF d.ctx # pkt.target_ctx THEN <<>> ELSE d.cache,
                        !.ctx = pkt.target_ctx, !.u = FALSE]
         ELSE [d EXCEPT !.u = TRUE]

\* lines 251-296: the trap event and the state after it
TrapEvent(pkt, d, trapping_pc) ==
    Bind(IF pkt.func3[1] = "TrapType" THEN pkt.func3[2] ELSE "unreachable", LAMBDA trap_type :
    Bind(U64Add(d.timestamp, pkt.timestamp), LAMBDA ts2 :
    Bind(trap_type = "TReturn" /\ pkt.target_prv = "PrvUser", LAMBDA report_ctx :
    Bind(compute_from_xored_target_addr(trapping_pc, pkt.target_address), LAMBDA new_pc :
      IF trap_type = "unreachable" THEN Outcome("panic", <<>>, d)
      ELSE IF InsnIndexGet(pkt.target_prv, d.ctx).st = "panic" THEN Outcome("panic", <<>>, d)
      ELSE IF TrapReasonFrom(trap_type) = "panic" THEN Outcome("panic", <<>>, d)
      ELSE Outcome("cont",
                   <<EvTrap(TrapReasonFrom(trap_type), <<pkt.target_prv, pkt.target_prv>>,
                            <<get_addr(trapping_pc), get_addr(new_pc)>>,
                            IF report_ctx THEN <<pkt.target_ctx>> ELSE <<>>, ts2)>>,
                   TrapCtxSwitch(pkt, [d EXCEPT !.timestamp = ts2, !.prv = pkt.target_prv,
                                                !.pc = new_pc], report_ctx))))))

\* lines 236-297: FTrap
DecodeFTrapOp(pkt, d, map) ==
    Bind(refund_addr(pkt.from_address), LAMBDA trapping_pc :
      IF d.u /\ d.prv = "PrvUser" THEN TrapEvent(pkt, d, trapping_pc)
      ELSE Bind(step_bb_until(get_addr(d.pc), map, trapping_pc), LAMBDA su :
             IF su.st # "ok" \/ su.pc # trapping_pc THEN Outcome("panic", <<>>, d)
             ELSE TrapEvent(pkt, d, trapping_pc)))

\* lines 305-332: the loop over the hits of a predict-mode FTb
RECURSIVE HitLoop(_, _, _, _, _)
HitLoop(k, d, map, cfg, evs) ==
    IF k = 0 THEN Outcome("cont", evs, d)
    ELSE
    Bind(step_bb(get_addr(d.pc), map, cfg.br_mode, d.cache), LAMBDA sb :
    Bind(get_addr(sb.pc), LAMBDA a :
      IF sb.st = "hang" THEN Outcome("hang", evs, d)
      ELSE IF sb.st # "ok" \/ a \notin DOMAIN map THEN Outcome("panic", evs, d)
      ELSE IF ~is_branch(map[a]) THEN Outcome("panic", Append(evs, EvPanic), d)
      ELSE
      Bind(BpPredict(d.bp, cfg.bp_entries, a, TRUE), LAMBDA pr :
      Bind(IF pr.taken THEN U64Add(a, I64AsU64(map[a].offset))
           ELSE U64Add(a, U64Of(map[a].len)), LAMBDA new_pc :
        IF pr.st = "panic" THEN Outcome("panic", evs, d)
        ELSE HitLoop(k - 1, [d EXCEPT !.pc = new_pc, !.bp = pr.bp, !.cache = sb.cache],
                     map, cfg,
                     Append(evs, IF pr.taken THEN EvTakenBranch(<<a, new_pc>>, d.timestamp)
                                 ELSE EvNonTakenBranch(<<a, new_pc>>, d.timestamp)))))))

\* a predicted hit that adds the hit count to the running timestamp
DecodePredictFTbOp_AdvancesTime(pkt, d, map, cfg) ==
    HitLoop(pkt.timestamp[3], [d EXCEPT !.timestamp = U64Add(d.timestamp, pkt.timestamp)],
            map, cfg, <<EvBPHit(pkt.timestamp, pkt.timestamp)>>)

\* lines 299-332: FTb in BrPredict mode; the timestamp field is the hit count
\* (the inputs keep it below 2^20)
DecodePredictFTbOp(pkt, d, map, cfg) ==
    HitLoop(pkt.timestamp[3], d, map, cfg, <<EvBPHit(pkt.timestamp, pkt.timestamp)>>)

\* a predicted miss resolved as the predictor answers, without inverting
MissResolve_NotInverted(d, map, cfg, ts2, sb, a, evs) ==
    Bind(BpPredict(d.bp, cfg.bp_entries, a, FALSE), LAMBDA pr :
    Bind(IF pr.taken THEN U64Add(a, I64AsU64(map[a].offset))
         ELSE U64Add(a, U64Of(map[a].len)), LAMBDA new_pc :
      IF pr.st = "panic" THEN Outcome("panic", evs, d)
      ELSE Outcome("cont",
                   Append(evs, IF pr.taken THEN EvTakenBranch(<<a, new_pc>>, ts2)
                               ELSE EvNonTakenBranch(<<a, new_pc>>, ts2)),
                   [d EXCEPT !.timestamp = ts2, !.bp = pr.bp, !.cache = sb.cache,
                             !.pc = new_pc])))

\* lines 343-366: the branch of a predicted miss, resolved against the prediction
MissResolve(d, map, cfg, ts2, sb, a, evs) ==
    Bind(BpPredict(d.bp, cfg.bp_entries, a, FALSE), LAMBDA pr :
    Bind(IF ~pr.taken THEN U64Add(a, I64AsU64(map[a].offset))
         ELSE U64Add(a, U64Of(map[a].len)), LAMBDA new_pc :
      IF pr.st = "panic" THEN Outcome("panic", evs, d)
      ELSE Outcome("cont",
                   Append(evs, IF ~pr.taken THEN EvTakenBranch(<<a, new_pc>>, ts2)
                               ELSE EvNonTakenBranch(<<a, new_pc>>, ts2)),
                   [d EXCEPT !.timestamp = ts2, !.bp = pr.bp, !.cache = sb.cache,
                             !.pc = new_pc])))

\* C10 mutant: a predicted miss that is not reported
DecodePredictFNtOp_NoMiss(pkt, d, map, cfg) ==
    Bind(U64Add(d.timestamp, pkt.timestamp), LAMBDA ts2 :
    Bind(step_bb(get_addr(d.pc), map, cfg.br_mode, d.cache), LAMBDA sb :
    Bind(get_addr(sb.pc), LAMBDA a :
      IF sb.st = "hang" THEN Outcome("hang", <<>>, d)
      ELSE IF sb.st # "ok" \/ a \notin DOMAIN map THEN Outcome("panic", <<>>, d)
      ELSE IF ~is_branch(map[a]) THEN Outcome("panic", <<EvPanic>>, d)
      ELSE MissResolve(d, map, cfg, ts2, sb, a, <<>>))))

\* lines 333-367: FNt in BrPredict mode
DecodePredictFNtOp(pkt, d, map, cfg) ==
    Bind(U64Add(d.timestamp, pkt.timestamp), LAMBDA ts2 :
    Bind(step_bb(get_addr(d.pc), map, cfg.br_mode, d.cache), LAMBDA sb :
    Bind(get_addr(sb.pc), LAMBDA a :
      IF sb.st = "hang" THEN Outcome("hang", <<EvBPMiss(ts2)>>, d)
      ELSE IF sb.st # "ok" \/ a \notin DOMAIN map THEN Outcome("panic", <<EvBPMiss(ts2)>>, d)
      ELSE IF ~is_branch(map[a]) THEN Outcome("panic", <<EvBPMiss(ts2), EvPanic>>, d)
      ELSE MissResolve(d, map, cfg, ts2, sb, a, <<EvBPMiss(ts2)>>))))

\* lines 375-459: the packet against the instruction the walk stopped at
ResolveTarget(pkt, d, insn, a, addr) ==
    CASE pkt.f_header = "FTb" ->
           IF ~is_branch(insn) THEN Outcome("panic", <<EvPanic>>, d)
           ELSE Bind(U64Add(a, I64AsU64(insn.offset)), LAMBDA new_pc :
                  Outcome("cont", <<EvTakenBranch(<<a, new_pc>>, d.timestamp)>>,
                          [d EXCEPT !.pc = new_pc]))
      [] pkt.f_header = "FNt" ->
           IF ~is_branch(insn) THEN Outcome("panic", <<EvPanic>>, d)
           ELSE Bind(U64Add(a, U64Of(insn.len)), LAMBDA new_pc :
                  Outcome("cont", <<EvNonTakenBranch(<<a, new_pc>>, d.timestamp)>>,
                          [d EXCEPT !.pc = new_pc]))
      [] pkt.f_header = "FIj" ->
           IF ~is_direct_jump(insn) THEN Outcome("panic", <<EvPanic>>, d)
           ELSE Bind(U64Add(a, I64AsU64(insn.offset)), LAMBDA new_pc :
                  Outcome("cont", <<EvInferrableJump(<<a, get_addr(new_pc)>>, d.timestamp)>>,
                          [d EXCEPT !.pc = new_pc]))
      [] pkt.f_header = "FUj" ->
           IF ~is_indirect_jump(insn) THEN Outcome("panic", <<EvPanic>>, d)
           ELSE Bind(compute_from_xored_target_addr(addr, pkt.target_address), LAMBDA new_pc :
                  Outcome("cont", <<EvUninferableJump(<<a, get_addr(new_pc)>>, d.timestamp)>>,
                          [d EXCEPT !.pc = new_pc]))
      [] OTHER -> Outcome("panic", <<EvPanic>>, d)

\* a target arm whose skip drops the packet's delta
DecodeTargetOp_SkipKeepsTime(pkt, d, map, cfg) ==
    IF d.u /\ d.prv = "PrvUser"
    THEN Outcome("cont", <<>>, d)
    ELSE
    Bind(step_bb(get_addr(d.pc), map, cfg.br_mode, d.cache), LAMBDA sb :
    Bind(get_addr(sb.pc), LAMBDA a :
      IF sb.st = "hang" THEN Outcome("hang", <<>>, d)
      ELSE IF sb.st # "ok" \/ a \notin DOMAIN map THEN Outcome("panic", <<>>, d)
      ELSE Bind(ResolveTarget(pkt, [d EXCEPT !.timestamp = U64Add(d.timestamp, pkt.timestamp),
                                             !.cache = sb.cache], map[a], a, sb.pc),
                LAMBDA o : IF o.st = "panic" THEN Outcome("panic", o.evs, d) ELSE o)))

\* lines 368-465: every other packet (the "branch target mode" arm)
DecodeTargetOp(pkt, d, map, cfg) ==
    IF d.u /\ d.prv = "PrvUser"
    THEN Outcome("cont", <<>>, [d EXCEPT !.timestamp = U64Add(d.timestamp, pkt.timestamp)])
    ELSE
    Bind(step_bb(get_addr(d.pc), map, cfg.br_mode, d.cache), LAMBDA sb :
    Bind(get_addr(sb.pc), LAMBDA a :
      IF sb.st = "hang" THEN Outcome("hang", <<>>, d)
      ELSE IF sb.st # "ok" \/ a \notin DOMAIN map THEN Outcome("panic", <<>>, d)
      ELSE Bind(ResolveTarget(pkt, [d EXCEPT !.timestamp = U64Add(d.timestamp, pkt.timestamp),
                                             !.cache = sb.cache], map[a], a, sb.pc),
                LAMBDA o : IF o.st = "panic" THEN Outcome("panic", o.evs, d) ELSE o)))

-----------------------------------------------------------------------------
(* Trace files.  A file is the first packet followed by packets; the       *)
(* encoders below lay the bytes out as read_first_packet and read_packet   *)
(* take them apart.                                                        *)

\* the bytes read_varint folds back into x: 7 bits a byte, low bits first,
\* bit 7 set on the last byte
RECURSIVE EncVarint(_)
EncVarint(x) ==
    LET low == x[3] % 128
        rest == U64Shr(x, 7)
    IN  IF rest = U64Zero THEN <<low + 128>> ELSE <<low>> \o EncVarint(rest)

\* first byte of an uncompressed packet: c_header 0, f_header, sub-function
HdrF(f, sub) == f * 2^FHEADER_OFFSET + sub * 2^TRAP_TYPE_OFFSET

\* privilege byte: checksum 0b10, target, from
PrvByte(from, target) == 128 + target * 8 + from

\* an address as the encoder sends it: the low 40 bits shifted right by one
WireAddr(a) == U64Shr1(U64And(a, ADDR_MASK))

\* the XOR delta the encoder sends for a jump or trap from a to b
XorWire(a, b) == U64Shr1(U64Xor(U64And(a, ADDR_MASK), U64And(b, ADDR_MASK)))

FirstPkt(tprv, c, cfgb, a, ts) ==
    <<HdrF(6, 1), PrvByte(0, tprv)>> \o EncVarint(U64Of(c)) \o <<cfgb>>
        \o EncVarint(WireAddr(a)) \o EncVarint(U64Of(ts))

FUjPkt(delta, ts) == <<HdrF(3, 0)>> \o EncVarint(delta) \o EncVarint(U64Of(ts))

FTrapPkt(tt, from, target, c, a, b, ts) ==
    <<HdrF(5, tt), PrvByte(from, target)>>
        \o (IF tt = 4 /\ target = 0 THEN EncVarint(U64Of(c)) ELSE <<>>)
        \o EncVarint(WireAddr(a)) \o EncVarint(XorWire(a, b)) \o EncVarint(U64Of(ts))

FSyncPkt(st, a, ts) ==
    <<HdrF(6, st), PrvByte(0, 0)>> \o EncVarint(U64Of(7)) \o EncVarint(WireAddr(a))
        \o EncVarint(U64Of(ts))

\* what the file can start with
FirstInputs ==
    { FirstPkt(0, 7, 0, UA(4096), 5),      \* user, ASID 7, BrTarget, 0x1000
      FirstPkt(0, 7, 5, UA(4096), 5),      \* BrPredict, 64 entries
      FirstPkt(0, 7, 1, UA(4096), 5),      \* BrPredict, no entries
      FirstPkt(0, 7, 0, UTop, 5),          \* the last word below 2^39
      FirstPkt(2, 0, 0, KA(4096), 5),      \* target privilege 2
      FirstPkt(1, 0, 0, KA(4096), 5),      \* supervisor, the handler
      FirstPkt(0, 7, 5, UA(4112), 5),      \* BrPredict, in the idle loop
      <<>>,                                \* an empty file
      <<HdrF(6, 1), 0>> }                  \* privilege byte without checksum

\* what can follow
WireInputs ==
    { <<5>>, <<6>>, <<7>>,                                  \* CTb, CNt, CIj, 1 tick
      <<HdrF(1, 0)>> \o EncVarint(U64Of(2)),                \* FTb, 2 ticks
      FUjPkt(XorWire(UA(4110), UA(4352)), 1),              \* 0x100e -> 0x1100
      FUjPkt(XorWire(UA(4360), UA(4108)), 1),              \* 0x1108 -> 0x100c
      FUjPkt(<<0, R20 \div 2, 0>>, 1),                      \* target field 2^39
      FTrapPkt(1, 0, 1, 0, UA(4096), KA(4096), 3),         \* exception U -> S
      FTrapPkt(4, 1, 0, 7, KA(4096), UA(4100), 3),         \* return to ASID 7
      FTrapPkt(4, 1, 0, 99, KA(4096), UA(4100), 3),        \* return to ASID 99
      FTrapPkt(1, 0, 1, 0, UA(4104), KA(4096), 3),         \* exception at 0x1008
      FTrapPkt(4, 1, 0, 7, KA(4096), UA(4096), 3),         \* return to 0x1000
      FTrapPkt(2, 0, 0, 0, UA(4096), UA(4100), 3),         \* interrupt U -> U
      <<HdrF(5, 1), PrvByte(0, 1)>> \o EncVarint(WireAddr(UA(4096)))
          \o EncVarint(<<0, R20 \div 2, 0>>) \o EncVarint(U64Of(3)), \* exception, target field 2^39
      FSyncPkt(4, UA(4108), 1),                            \* SyncEnd
      FSyncPkt(2, UA(4096), 9),                            \* SyncPeriodic
      <<HdrF(5, 1), 8>>,                                   \* prv byte, checksum 0
      <<HdrF(0, 0)>>,                                      \* reserved header
      <<HdrF(6, 1)>>,                                      \* SyncStart again
      <<HdrF(1, 0)>>,                                      \* the file ends in a packet
      <<HdrF(5, 1), PrvByte(0, 1), 128>>,
      <<>> }                                               \* the file ends

-----------------------------------------------------------------------------
(* The decoder thread (frontend/decoder.rs:163-472).  dpc is where the     *)
(* thread is: "start", "loop", "ok" (returned Ok), "err" (returned Err),   *)
(* "panicked" or "hung".  Its broadcasts are appended to emitted; how the  *)
(* bus hands them to the sinks is SpecBus.                                 *)

\* lines 171-202
StartOk ==
    /\ dpc = "start"
    /\ \E w \in FirstInputs :
         \E r \in {read_first_packet(w)} :
         /\ r.st = "ok"
         /\ pc' = PC_new(r.pkt.target_address)
         /\ timestamp' = r.pkt.timestamp
         /\ prv' = r.pkt.target_prv
         /\ ctx' = r.pkt.target_ctx
         /\ u_unknown_ctx' = FALSE
         /\ bp_counter' = <<>>
         /\ decoder_cache' = <<>>
         /\ runtime_cfg' = r.cfg
         /\ packet' = NoPacket
         /\ npackets' = 0
         /\ lastRead' = [st |-> "ok", n |-> 0, used |-> Len(w)]
         /\ emitted' = <<EvSyncStart(r.cfg, get_addr(PC_new(r.pkt.target_address)),
                                     r.pkt.target_prv, r.pkt.target_ctx, r.pkt.timestamp)>>
         /\ emitCtx' = <<[prv |-> r.pkt.target_prv, ctx |-> r.pkt.target_ctx,
                          br_mode |-> r.cfg.br_mode, f_header |-> "FSync",
                          target_address |-> r.pkt.target_address,
                          u |-> FALSE, func3 |-> r.pkt.func3,
                          target_prv |-> r.pkt.target_prv,
                          target_ctx |-> r.pkt.target_ctx,
                          cache_hit |-> FALSE, delta |-> r.pkt.timestamp]>>
         /\ dpc' = "loop"
         /\ busClosed' = FALSE
         /\ UNCHANGED <<unwVars, fnVars, sinkVars, busVars>>

\* line 181: read_first_packet fails, nothing was broadcast
StartFail ==
    /\ dpc = "start"
    /\ \E w \in FirstInputs :
         \E r \in {read_first_packet(w)} :
         /\ r.st # "ok"
         /\ dpc' = IF r.st = "err" THEN "err" ELSE "panicked"
         /\ lastRead' = [st |-> r.st, n |-> 0, used |-> r.used]
         /\ busClosed' = TRUE
         /\ UNCHANGED <<unwVars, fnVars, sinkVars, pc, timestamp, prv, ctx, u_unknown_ctx, bp_counter, decoder_cache,
                        runtime_cfg, packet, npackets, emitCtx, emitted, busVars>>

\* lines 205-208: Err(_) => break, then the bus is dropped and Ok(()) returned
ReadEnd ==
    /\ dpc = "loop"
    /\ \E w \in WireInputs :
         \E r \in {read_packet(w, packet)} :
         /\ r.st = "err"
         /\ packet' = r.pkt
         /\ lastRead' = [st |-> "err", n |-> 0, used |-> r.used]
         /\ dpc' = "ok"
         /\ busClosed' = TRUE
         /\ UNCHANGED <<unwVars, fnVars, sinkVars, pc, timestamp, prv, ctx, u_unknown_ctx, bp_counter, decoder_cache,
                        runtime_cfg, npackets, emitCtx, emitted, busVars>>

\* line 205: an assertion of the reader fails
ReadPanic ==
    /\ dpc = "loop"
    /\ \E w \in WireInputs :
         \E r \in {read_packet(w, packet)} :
         /\ r.st = "panic"
         /\ packet' = r.pkt
         /\ lastRead' = [st |-> "panic", n |-> 0, used |-> r.used]
         /\ dpc' = "panicked"
         /\ busClosed' = TRUE
         /\ UNCHANGED <<unwVars, fnVars, sinkVars, pc, timestamp, prv, ctx, u_unknown_ctx, bp_counter, decoder_cache,
                        runtime_cfg, npackets, emitCtx, emitted, busVars>>

\* line 221: insn_index.get panics for a privilege without a map
DecodeNoMap ==
    /\ dpc = "loop"
    /\ npackets < MaxPackets
    /\ InsnIndexGet(prv, ctx).st = "panic"
    /\ \E w \in WireInputs :
         \E r \in {read_packet(w, packet)} :
         /\ r.st = "ok"
         /\ packet' = r.pkt
         /\ lastRead' = [st |-> "ok", n |-> r.n, used |-> r.used]
         /\ npackets' = npackets + 1
         /\ dpc' = "panicked"
         /\ busClosed' = TRUE
         /\ UNCHANGED <<unwVars, fnVars, sinkVars, pc, timestamp, prv, ctx, u_unknown_ctx, bp_counter, decoder_cache,
                        runtime_cfg, emitCtx, emitted, busVars>>

\* the rest of one iteration: the locals, the broadcasts, and where the
\* thread goes
Apply(o, r) ==
    /\ pc' = o.d.pc
    /\ timestamp' = o.d.timestamp
    /\ prv' = o.d.prv
    /\ ctx' = o.d.ctx
    /\ u_unknown_ctx' = o.d.u
    /\ bp_counter' = o.d.bp
    /\ decoder_cache' = o.d.cache
    /\ packet' = r.pkt
    /\ lastRead' = [st |-> "ok", n |-> r.n, used |-> r.used]
    /\ npackets' = npackets + 1
    /\ emitted' = emitted \o o.evs
    /\ emitCtx' = emitCtx \o [i \in 1..Len(o.evs) |->
                                 [prv |-> prv, ctx |-> ctx,
                                  br_mode |-> runtime_cfg.br_mode,
                                  f_header |-> r.pkt.f_header,
                                  target_address |-> r.pkt.target_address,
                                  u |-> u_unknown_ctx, func3 |-> r.pkt.func3,
                                  target_prv |-> r.pkt.target_prv,
                                  target_ctx |-> r.pkt.target_ctx,
                                  cache_hit |-> get_addr(pc) \in DOMAIN decoder_cache,
                                  delta |-> r.pkt.timestamp]]
    /\ dpc' = CASE o.st = "cont" -> "loop" [] o.st = "break" -> "ok"
                [] o.st = "panic" -> "panicked" [] OTHER -> "hung"
    /\ busClosed' = (o.st \in {"break", "panic"})
    /\ UNCHANGED <<unwVars, fnVars, sinkVars, runtime_cfg, busVars>>

\* an iteration that got a packet and has a map
Iteration(r) ==
    /\ dpc = "loop"
    /\ npackets < MaxPackets
    /\ r.st = "ok"
    /\ InsnIndexGet(prv, ctx).st = "ok"

DecodeFSync ==
    \E w \in WireInputs :
        \E r \in {read_packet(w, packet)} :
        /\ Iteration(r)
        /\ r.pkt.f_header = "FSync"
        /\ Apply(DecodeFSyncOp(r.pkt, Cur, InsnIndexGet(prv, ctx).map), r)

DecodeFTrap ==
    \E w \in WireInputs :
        \E r \in {read_packet(w, packet)} :
        /\ Iteration(r)
        /\ r.pkt.f_header = "FTrap"
        /\ Apply(DecodeFTrapOp(r.pkt, Cur, InsnIndexGet(prv, ctx).map), r)

DecodePredictFTb ==
    \E w \in WireInputs :
        \E r \in {read_packet(w, packet)} :
        /\ Iteration(r)
        /\ runtime_cfg.br_mode = "BrPredict"
        /\ r.pkt.f_header = "FTb"
        /\ Apply(DecodePredictFTbOp(r.pkt, Cur, InsnIndexGet(prv, ctx).map, runtime_cfg), r)

DecodePredictFNt ==
    \E w \in WireInputs :
        \E r \in {read_packet(w, packet)} :
        /\ Iteration(r)
        /\ runtime_cfg.br_mode = "BrPredict"
        /\ r.pkt.f_header = "FNt"
        /\ Apply(DecodePredictFNtOp(r.pkt, Cur, InsnIndexGet(prv, ctx).map, runtime_cfg), r)

DecodeTarget ==
    \E w \in WireInputs :
        \E r \in {read_packet(w, packet)} :
        /\ Iteration(r)
        /\ r.pkt.f_header \notin {"FSync", "FTrap"}
        /\ ~(runtime_cfg.br_mode = "BrPredict" /\ r.pkt.f_header \in {"FTb", "FNt"})
        /\ Apply(DecodeTargetOp(r.pkt, Cur, InsnIndexGet(prv, ctx).map, runtime_cfg), r)

Init == dpc = "start" /\ DecoderBlank /\ BusInit /\ UnwinderNew /\ NoCall /\ SinksNew(TRUE)

Next ==
    \/ StartOk
    \/ StartFail
    \/ ReadEnd
    \/ ReadPanic
    \/ DecodeNoMap
    \/ DecodeFSync
    \/ DecodeFTrap
    \/ DecodePredictFTb
    \/ DecodePredictFNt
    \/ DecodeTarget

Spec == Init /\ [][Next]_vars

\* the decoder thread is scheduled and the trace file is finite: the
\* thread does not wait forever in front of a read that can end it, be it
\* the first read or the read that meets the end of the file
SpecLive == Spec /\ WF_vars(StartFail) /\ WF_vars(ReadEnd)

-----------------------------------------------------------------------------
(* Claims about the decoder.                                               *)

Events(kinds) == {i \in 1..Len(emitted) : emitted[i].kind \in kinds}

\* the instruction map the decoder had selected when it emitted entry i
MapOf(i) == InsnIndexGet(emitCtx[i].prv, emitCtx[i].ctx).map

\* x sign-extended from bit 39: bits 63..40 are copies of bit 39
SignExt39(x) ==
    IF x[2] >= R20 \div 2 THEN <<R24 - 1, x[2], x[3]>> ELSE <<0, x[2], x[3]>>

\* C4: whenever the decoder has stopped on a fatal decode error (its thread
\* panicked), the last entry it broadcast is a Panic event.
C4_PanicBroadcastBeforeStop ==
    dpc = "panicked" => (Len(emitted) > 0 /\ emitted[Len(emitted)].kind = "Panic")

\* C5: when a packet read fails after at least one byte of the packet was
\* taken from the stream, the decoder ends with an error, never as on a
\* clean end of the trace.
C5_MidPacketEofIsFatal ==
    (lastRead.st = "err" /\ lastRead.used > 0) => dpc \in {"err", "panicked"}

\* C6: every event other than SyncStart carries a timestamp that is at least
\* the timestamp of every event emitted before it.
C6_TimestampsNonDecreasing ==
    \A j \in 1..Len(emitted) : \A i \in 1..(j - 1) :
        emitted[j].kind # "SyncStart" => U64Le(emitted[i].timestamp, emitted[j].timestamp)

\* C7: the from of every TakenBranch or NonTakenBranch is a branch in the
\* instruction map of the (prv, ctx) it was emitted under, the from of every
\* InferrableJump a direct jump, the from of every UninferableJump an
\* indirect jump.
C7_ArcFromMatchesKind ==
    \A i \in 1..Len(emitted) :
        /\ emitted[i].kind \in {"TakenBranch", "NonTakenBranch"} =>
             /\ emitted[i].arc[1] \in DOMAIN MapOf(i)
             /\ MapOf(i)[emitted[i].arc[1]].kind = "branch"
        /\ emitted[i].kind = "InferrableJump" =>
             /\ emitted[i].arc[1] \in DOMAIN MapOf(i)
             /\ MapOf(i)[emitted[i].arc[1]].kind = "djump"
        /\ emitted[i].kind = "UninferableJump" =>
             /\ emitted[i].arc[1] \in DOMAIN MapOf(i)
             /\ MapOf(i)[emitted[i].arc[1]].kind = "ijump"

\* a run that resolved a branch, a direct jump and an indirect jump
C7_Witness ==
    /\ Events({"TakenBranch", "NonTakenBranch"}) # {}
    /\ Events({"InferrableJump"}) # {}
    /\ Events({"UninferableJump"}) # {}

\* C8: the to of every TakenBranch and InferrableJump is from + insn.offset
\* sign-extended from bit 39.
C8_ToIsSignExtendedTarget ==
    \A i \in Events({"TakenBranch", "InferrableJump"}) :
        emitted[i].arc[2] =
            SignExt39(U64Add(emitted[i].arc[1],
                             I64AsU64(MapOf(i)[emitted[i].arc[1]].offset)))

\* C9: the to of every UninferableJump is the low 40 bits of from XOR
\* (target_address << 1), sign-extended from bit 39.
C9_ToIsSignExtendedXor ==
    \A i \in Events({"UninferableJump"}) :
        emitted[i].arc[2] =
            SignExt39(U64Xor(U64And(emitted[i].arc[1], ADDR_MASK),
                             U64Shl1(emitCtx[i].target_address)))

RECURSIVE SumHitCounts(_)
SumHitCounts(k) ==
    IF k = 0 THEN 0
    ELSE SumHitCounts(k - 1)
         + (IF emitted[k].kind = "BPHit" THEN emitted[k].hit_count[3] ELSE 0)

\* C10: in BrPredict mode, while no fatal error has happened, the hit counts
\* of the BPHit events and the number of BPMiss events add up to the number
\* of TakenBranch and NonTakenBranch events of the FTb and FNt packets.
C10_HitsPlusMissesAreBranches ==
    (runtime_cfg.br_mode = "BrPredict" /\ dpc \in {"loop", "ok"}) =>
        SumHitCounts(Len(emitted)) + Cardinality(Events({"BPMiss"}))
            = Cardinality({i \in Events({"TakenBranch", "NonTakenBranch"}) :
                              emitCtx[i].f_header \in {"FTb", "FNt"}})

\* a BrPredict run with a two-hit packet and a miss behind it
C10_Witness ==
    /\ runtime_cfg.br_mode = "BrPredict"
    /\ dpc \in {"loop", "ok"}
    /\ \E i \in Events({"BPHit"}) : emitted[i].hit_count = U64Of(2)
    /\ Events({"BPMiss"}) # {}
    /\ Cardinality(Events({"TakenBranch", "NonTakenBranch"})) >= 3

\* C11: while u_unknown_ctx is set and the decoder is in User privilege, a
\* packet is skipped without an event, in both modes (the Trap that leaves
\* the state and the SyncEnd that ends the trace set aside).
C11_UnknownCtxUserPacketsSilent ==
    \A i \in 1..Len(emitted) :
        (emitCtx[i].u /\ emitCtx[i].prv = "PrvUser") =>
            emitted[i].kind \in {"Trap", "SyncEnd"}

\* C12: every Trap event carries prv_arc = (the decoder's privilege
\* immediately before the trap packet, the packet's target_prv).
C12_TrapPrvArcIsBeforeAndTarget ==
    \A i \in 1..Len(emitted) :
        emitted[i].kind = "Trap" =>
            emitted[i].prv_arc = <<emitCtx[i].prv, emitCtx[i].target_prv>>

\* C13: a Trap event carries a context exactly when it is a Return that
\* targets User privilege and whose target_ctx is indexed; the carried
\* context is then the packet's target_ctx.
C13_TrapCtxOnlyForIndexedReturn ==
    \A i \in 1..Len(emitted) :
        emitted[i].kind = "Trap" =>
            IF /\ emitted[i].reason = "Return"
               /\ emitCtx[i].target_prv = "PrvUser"
               /\ find_ctx(emitCtx[i].target_ctx)
            THEN emitted[i].ctx = <<emitCtx[i].target_ctx>>
            ELSE emitted[i].ctx = <<>>

\* C14: a first packet that selects BrPredict with bp_entries = 0 is
\* rejected when it is parsed: no trace is ever started under that
\* configuration.
C14_PredictWithoutEntriesRejected ==
    \A i \in 1..Len(emitted) :
        emitted[i].kind = "SyncStart" =>
            ~ (/\ emitted[i].runtime_cfg.br_mode = "BrPredict"
               /\ emitted[i].runtime_cfg.bp_entries = 0)

\* C15: once a valid first packet was read, the first event is SyncStart
\* with start_pc, start_prv and start_ctx of that packet and no later event
\* is a SyncStart; when the file ends right after the first packet the
\* stream is that one SyncStart and the decoder returns with the bus closed.
C15_SyncStartFirstAndOnce ==
    /\ dpc = "loop" => Len(emitted) >= 1
    /\ Len(emitted) >= 1 =>
         /\ emitted[1].kind = "SyncStart"
         /\ emitted[1].start_pc = get_addr(PC_new(emitCtx[1].target_address))
         /\ emitted[1].start_prv = emitCtx[1].target_prv
         /\ emitted[1].start_ctx = emitCtx[1].target_ctx
         /\ \A i \in 2..Len(emitted) : emitted[i].kind # "SyncStart"
    /\ (Len(emitted) >= 1 /\ npackets = 0 /\ lastRead = [st |-> "err", n |-> 0, used |-> 0]) =>
         /\ dpc = "ok"
         /\ Len(emitted) = 1
         /\ busClosed

C15_Witness ==
    /\ dpc = "ok" /\ busClosed
    /\ npackets = 0 /\ lastRead = [st |-> "err", n |-> 0, used |-> 0]
    /\ Len(emitted) = 1
    /\ emitted[1].kind = "SyncStart"
    /\ emitted[1].start_ctx = U64Of(7)
    /\ emitted[1].start_pc = UA(4096)

-----------------------------------------------------------------------------
(* The symbol index (common/symbol_index.rs) of the fixture: the functions  *)
(* of the user binary, of the kernel and of the firmware.                  *)

U64Max == <<R24 - 1, R20 - 1, R20 - 1>>

SymbolInfo(name, p) == [name |-> name, prv |-> p]

u_symbol_map ==
    (UA(4096) :> SymbolInfo("A", "PrvUser")) @@ (UA(4352) :> SymbolInfo("B", "PrvUser"))
        @@ (UA(4608) :> SymbolInfo("C", "PrvUser"))
k_symbol_map ==
    (KA(4096) :> SymbolInfo("handler", "PrvSupervisor"))
        @@ (KA(4352) :> SymbolInfo("kfn", "PrvSupervisor"))
m_symbol_map == (MA(0) :> SymbolInfo("sbi", "PrvMachine"))

\* SymbolIndex::get as the unwinder calls it, by privilege alone
SymbolIndex_get(p) ==
    CASE p = "PrvUser" -> [st |-> "ok", map |-> u_symbol_map]
      [] p = "PrvSupervisor" -> [st |-> "ok", map |-> k_symbol_map]
      [] p = "PrvMachine" -> [st |-> "ok", map |-> m_symbol_map]
      [] OTHER -> [st |-> "panic", map |-> <<>>]

\* the least key of a non-empty set of keys
MinKey(ks) == CHOOSE k \in ks : \A j \in ks : U64Le(k, j)
\* the greatest key of a non-empty set of keys
MaxKey(ks) == CHOOSE k \in ks : \A j \in ks : U64Le(j, k)

\* a range lookup that answers for any address inside a function
SymbolIndex_range_Enclosing(p, addr) ==
    LET g == SymbolIndex_get(p)
        keys == DOMAIN g.map
    IN  IF g.st = "panic" THEN [st |-> "panic", r |-> <<>>]
        ELSE IF {k \in keys : U64Le(k, addr)} = {} THEN [st |-> "ok", r |-> <<>>]
        ELSE LET start == MaxKey({k \in keys : U64Le(k, addr)})
                 later == {k \in keys : U64Le(U64Add(start, U64Of(1)), k)}
             IN  [st |-> "ok",
                  r |-> <<start, IF later = {} THEN U64Max ELSE MinKey(later)>>]

\* SymbolIndex::range: None (<<>>) unless addr starts a symbol, else
\* [start, end) with end the next symbol's start or u64::MAX
SymbolIndex_range(p, addr) ==
    LET g == SymbolIndex_get(p)
        keys == DOMAIN g.map
    IN  IF g.st = "panic" THEN [st |-> "panic", r |-> <<>>]
        ELSE IF addr \notin keys THEN [st |-> "ok", r |-> <<>>]
        ELSE LET start == MaxKey({k \in keys : U64Le(k, addr)})
                 later == {k \in keys : U64Le(U64Add(start, U64Of(1)), k)}
             IN  [st |-> "ok",
                  r |-> <<start, IF later = {} THEN U64Max ELSE MinKey(later)>>]

\* names the symbol filter drops: they start with "$x", "$d" or ".L"
GhostNames == {"$x", "$d", ".L0"}

\* name.trim().is_empty()
IsBlank(name) == name \in {"", " "}

\* build_single_symbol_index, the loop over obj_file.symbols() (lines 100-142):
\* the alias is looked up at addr, the symbol is inserted at addr + offset
RECURSIVE build_single_symbol_index(_, _, _, _, _)
build_single_symbol_index(syms, i, p, offset, map) ==
    IF i > Len(syms) THEN map
    ELSE IF ~ syms[i].exec \/ syms[i].name \in GhostNames
    THEN build_single_symbol_index(syms, i + 1, p, offset, map)
    ELSE IF syms[i].addr \in DOMAIN map
    THEN IF IsBlank(map[syms[i].addr].name) /\ ~ IsBlank(syms[i].name)
         THEN build_single_symbol_index(syms, i + 1, p, offset,
                  (syms[i].addr :> SymbolInfo(syms[i].name, p)) @@ map)
         ELSE build_single_symbol_index(syms, i + 1, p, offset, map)
    ELSE build_single_symbol_index(syms, i + 1, p, offset,
             (U64Add(syms[i].addr, offset) :> SymbolInfo(syms[i].name, p)) @@ map)

-----------------------------------------------------------------------------
(* The stack unwinder (backend/stack_unwinder.rs).                         *)

Frame(p, symbol, addr) == [prv |-> p, symbol |-> symbol, addr |-> addr]

\* Option<StackUpdateResult>
NoUpdate == [some |-> FALSE]
StackUpdateResult(size, opened, closed) ==
    [some |-> TRUE, frame_stack_size |-> size, frames_opened |-> opened,
     frames_closed |-> closed]

\* what a step leaves: the frame stack, curr_prv and the value returned
Stepped(st, frames, p, res) == [st |-> st, frames |-> frames, prv |-> p, res |-> res]

\* push_frame followed by the caller's match on its result (step_ij, and the
\* Exception | Interrupt arm of step_trap)
push_frame(frames, p, addr) ==
    LET g == SymbolIndex_get(p)
    IN  IF g.st = "panic" THEN Stepped("panic", frames, p, NoUpdate)
        ELSE IF addr \in DOMAIN g.map
        THEN Stepped("ok", Append(frames, Frame(p, g.map[addr], addr)), p,
                     StackUpdateResult(Len(frames) + 1,
                                       <<Frame(p, g.map[addr], addr)>>, <<>>))
        ELSE Stepped("ok", frames, p, NoUpdate)

pop_frame(frames) == SubSeq(frames, 1, Len(frames) - 1)

peek_head_frames(frames) == IF frames = <<>> THEN <<>> ELSE <<frames[Len(frames)]>>

step_sync_start(frames, start_prv) == Stepped("ok", frames, start_prv, NoUpdate)

\* a direct jump that closes the head frame when it enters no function
step_ij_PopOnMiss(frames, p, to_addr) ==
    IF to_addr \in DOMAIN SymbolIndex_get(p).map \/ frames = <<>>
    THEN push_frame(frames, p, to_addr)
    ELSE Stepped("ok", pop_frame(frames), p,
                 StackUpdateResult(Len(frames) - 1, <<>>, <<frames[Len(frames)]>>))

step_ij(frames, p, to_addr) == push_frame(frames, p, to_addr)

\* a return loop that pops the head frame before it looks at its range
RECURSIVE UjLoop_PopFirst(_, _, _, _)
UjLoop_PopFirst(frames, p, target, closed) ==
    IF peek_head_frames(frames) = <<>>
    THEN Stepped("ok", frames, p, StackUpdateResult(Len(frames), <<>>, closed))
    ELSE LET frame == frames[Len(frames)]
             rg == SymbolIndex_range(p, frame.addr)
         IN  IF rg.st = "panic" \/ rg.r = <<>>
             THEN Stepped("panic", frames, p, NoUpdate)
             ELSE IF U64Le(rg.r[1], target) /\ U64Lt(target, rg.r[2])
             THEN Stepped("ok", pop_frame(frames), p,
                          StackUpdateResult(Len(frames) - 1, <<>>, Append(closed, frame)))
             ELSE UjLoop_PopFirst(pop_frame(frames), p, target, Append(closed, frame))

\* step_uj's loop, lines 115-138
RECURSIVE UjLoop(_, _, _, _)
UjLoop(frames, p, target, closed) ==
    IF peek_head_frames(frames) = <<>>
    THEN Stepped("ok", frames, p, StackUpdateResult(Len(frames), <<>>, closed))
    ELSE LET frame == frames[Len(frames)]
             rg == SymbolIndex_range(p, frame.addr)
         IN  IF rg.st = "panic" \/ rg.r = <<>>       \* .expect("missing symbol in map")
             THEN Stepped("panic", frames, p, NoUpdate)
             ELSE IF U64Le(rg.r[1], target) /\ U64Lt(target, rg.r[2])
             THEN Stepped("ok", frames, p, StackUpdateResult(Len(frames), <<>>, closed))
             ELSE UjLoop(pop_frame(frames), p, target, Append(closed, frame))

step_uj(frames, p, to_addr) ==
    LET g == SymbolIndex_get(p)
    IN  IF g.st = "panic" THEN Stepped("panic", frames, p, NoUpdate)
        ELSE IF to_addr \in DOMAIN g.map
        THEN Stepped("ok", Append(frames, Frame(p, g.map[to_addr], to_addr)), p,
                     StackUpdateResult(Len(frames) + 1,
                                       <<Frame(p, g.map[to_addr], to_addr)>>, <<>>))
        ELSE UjLoop(frames, p, to_addr, <<>>)

\* the Return arm of step_trap, lines 157-177
RECURSIVE TrapReturnLoop(_, _, _)
TrapReturnLoop(frames, p, closed) ==
    IF peek_head_frames(frames) = <<>>
    THEN Stepped("ok", frames, p, StackUpdateResult(Len(frames), <<>>, closed))
    ELSE IF frames[Len(frames)].prv = p
    THEN Stepped("ok", frames, p, StackUpdateResult(Len(frames), <<>>, closed))
    ELSE TrapReturnLoop(pop_frame(frames), p, Append(closed, frames[Len(frames)]))

step_trap(frames, p, reason, prv_arc, to_addr) ==
    IF reason \in {"Exception", "Interrupt"}
    THEN push_frame(frames, prv_arc[2], to_addr)
    ELSE TrapReturnLoop(frames, p, <<>>)

\* flush, lines 182-189: the stack is cloned, not drained
flush(frames) == StackUpdateResult(Len(frames), <<>>, frames)

step(frames, p, entry) ==
    CASE entry.kind = "SyncStart" -> step_sync_start(frames, entry.start_prv)
      [] entry.kind = "InferrableJump" -> step_ij(frames, p, entry.arc[2])
      [] entry.kind = "UninferableJump" -> step_uj(frames, p, entry.arc[2])
      [] entry.kind = "Trap" ->
            step_trap(frames, p, entry.reason, entry.prv_arc, entry.arc[2])
      [] OTHER -> Stepped("ok", frames, p, NoUpdate)

-----------------------------------------------------------------------------
(* The entries a sink hands to its unwinder.  The traced hart is in one     *)
(* privilege at a time (hart_prv); the jumps it reports lie in that        *)
(* privilege's text, a trap enters a more privileged handler and a Return  *)
(* leaves it.  Traps carry prv_arc as the decoder builds it.               *)

InstructionEntry(a) == [kind |-> "Instruction", pc |-> a]

SyncStartEntries ==
    { EvSyncStart([br_mode |-> "BrTarget", bp_entries |-> 0], UA(4096), "PrvUser",
                  U64Of(7), U64Of(5)),
      EvSyncStart([br_mode |-> "BrTarget", bp_entries |-> 0], KA(4096), "PrvSupervisor",
                  U64Zero, U64Of(5)) }

IjEntries(h) ==
    CASE h = "PrvUser" ->
            { EvInferrableJump(<<UA(4104), UA(4352)>>, U64Of(6)),     \* call B
              EvInferrableJump(<<UA(4360), UA(4108)>>, U64Of(6)) }    \* into A's body
      [] h = "PrvSupervisor" ->
            { EvInferrableJump(<<KA(4104), KA(4352)>>, U64Of(6)) }    \* call kfn
      [] OTHER -> {}

UjEntries(h) ==
    CASE h = "PrvUser" ->
            { EvUninferableJump(<<UA(4110), UA(4608)>>, U64Of(7)),    \* call C
              EvUninferableJump(<<UA(4360), UA(4108)>>, U64Of(7)),    \* back into A
              EvUninferableJump(<<UA(4616), UA(4356)>>, U64Of(7)) }   \* back into B
      [] h = "PrvSupervisor" ->
            { EvUninferableJump(<<KA(4108), KA(4100)>>, U64Of(7)) }   \* inside handler
      [] h = "PrvMachine" ->
            { EvUninferableJump(<<MA(8), MA(4)>>, U64Of(7)) }         \* inside sbi
      [] OTHER -> {}

TrapEntries(h) ==
    CASE h = "PrvUser" ->
            { EvTrap("Exception", <<"PrvSupervisor", "PrvSupervisor">>,
                     <<UA(4100), KA(4096)>>, <<>>, U64Of(8)),         \* to handler
              EvTrap("Interrupt", <<"PrvSupervisor", "PrvSupervisor">>,
                     <<UA(4100), KA(4104)>>, <<>>, U64Of(8)) }        \* to no symbol
      [] h = "PrvSupervisor" ->
            { EvTrap("Return", <<"PrvUser", "PrvUser">>,
                     <<KA(4100), UA(4100)>>, <<U64Of(7)>>, U64Of(9)),
              EvTrap("Interrupt", <<"PrvMachine", "PrvMachine">>,
                     <<KA(4100), MA(0)>>, <<>>, U64Of(8)) }           \* to sbi
      [] h = "PrvMachine" ->
            { EvTrap("Return", <<"PrvSupervisor", "PrvSupervisor">>,
                     <<MA(4), KA(4100)>>, <<>>, U64Of(9)) }
      [] OTHER -> {}

OtherEntries(h) ==
    CASE h = "PrvUser" ->
            { EvTakenBranch(<<UA(4100), UA(4108)>>, U64Of(6)), InstructionEntry(UA(4096)) }
      [] OTHER -> {}

\* the privilege the hart is in after the entry
HartAfter(h, entry) ==
    CASE entry.kind = "SyncStart" -> entry.start_prv
      [] entry.kind = "Trap" -> entry.prv_arc[2]
      [] OTHER -> h

-----------------------------------------------------------------------------
(* The Speedscope sink (receivers/speedscope_receiver.rs), which owns the  *)
(* unwinder.  A frame's id is the frame itself; the synthetic frame of an  *)
(* ASID is [asid |-> ctx].                                                 *)

ProfileEvent(kind, frame, at) == [kind |-> kind, frame |-> frame, at |-> at]

\* build_frames: the ASIDs that have a synthetic frame
asid_lookup == IndexedAsids

\* Lookup::lookup through lookup_frame: "panic", or whether the frame has an id
lookup_frame(frame) ==
    IF frame.prv \notin {"PrvUser", "PrvSupervisor", "PrvMachine"} THEN "panic"
    ELSE IF frame.addr \in DOMAIN SymbolIndex_get(frame.prv).map THEN "some"
    ELSE "none"

\* the events one list of frames adds
RECURSIVE FrameEvents(_, _, _, _)
FrameEvents(frames, i, kind, at) ==
    IF i > Len(frames) THEN <<>>
    ELSE (IF lookup_frame(frames[i]) = "some"
          THEN <<ProfileEvent(kind, [prv |-> frames[i].prv, addr |-> frames[i].addr], at)>>
          ELSE <<>>) \o FrameEvents(frames, i + 1, kind, at)

\* record_stack_update
record_stack_update(s, ts, upd) ==
    IF \E i \in 1..Len(upd.frames_closed) : lookup_frame(upd.frames_closed[i]) = "panic"
    THEN [s EXCEPT !.st = "panicked"]
    ELSE [s EXCEPT !.events = @ \o FrameEvents(upd.frames_closed, 1, "C", ts)
                                \o FrameEvents(upd.frames_opened, 1, "O", ts)]

\* update_asid_frame
update_asid_frame(s, ts, c) ==
    IF c = s.curr_ctx THEN s
    ELSE [s EXCEPT !.events =
              @ \o (IF s.curr_ctx # U64Zero /\ s.curr_ctx \in asid_lookup
                    THEN <<ProfileEvent("C", [asid |-> s.curr_ctx], ts)>> ELSE <<>>)
                \o (IF c \in asid_lookup
                    THEN <<ProfileEvent("O", [asid |-> c], ts)>> ELSE <<>>),
                   !.curr_ctx = c]

\* SpeedscopeReceiver::_receive_entry, given what unwinder.step returned
SpeedscopeReceiveEntry(s, entry, upd) ==
    IF entry.kind = "Instruction" THEN s
    ELSE Bind(IF upd.some THEN record_stack_update(s, entry.timestamp, upd) ELSE s, LAMBDA s1 :
      IF s1.st # "ok" THEN s1
      ELSE CASE entry.kind = "SyncStart" ->
                  [update_asid_frame([s1 EXCEPT !.start = entry.timestamp],
                                     entry.timestamp, entry.start_ctx)
                     EXCEPT !.curr_ctx = entry.start_ctx]
             [] entry.kind = "SyncEnd" -> [s1 EXCEPT !.end = entry.timestamp]
             [] entry.kind = "Trap" ->
                  IF entry.prv_arc[2] # "PrvUser" THEN s1
                  ELSE IF entry.ctx = <<>> THEN [s1 EXCEPT !.st = "panicked"]
                  ELSE update_asid_frame(s1, entry.timestamp, entry.ctx[1])
             [] OTHER -> s1)

\* SpeedscopeReceiver::_flush, given what unwinder.flush returned
SpeedscopeFlush(s, upd) ==
    Bind(IF s.end = U64Zero /\ s.events # <<>> THEN s.events[Len(s.events)].at ELSE s.end,
         LAMBDA end :
      [s EXCEPT !.end = end,
                !.events = @ \o FrameEvents(upd.frames_closed, 1, "C", end)
                             \o (IF s.curr_ctx \in asid_lookup
                                 THEN <<ProfileEvent("C", [asid |-> s.curr_ctx], end)>>
                                 ELSE <<>>)])

-----------------------------------------------------------------------------
(* The unwinder's steps: a sink calls step for each entry it receives and  *)
(* flush when the bus is closed.                                           *)

Stepping(entry) ==
    \E r \in {step(frame_stack, curr_prv, entry)} :
        /\ spd' = IF r.st = "panic" THEN [spd EXCEPT !.st = "panicked"]
                  ELSE SpeedscopeReceiveEntry(spd, entry, r.res)
        /\ upc' = IF r.st = "panic" \/ spd'.st # "ok" THEN "panicked" ELSE "run"
        /\ frame_stack' = r.frames
        /\ curr_prv' = r.prv
        /\ update' = r.res
        /\ lastEntry' = entry
        /\ prevFrames' = frame_stack
        /\ prevPrv' = curr_prv
        /\ hart_prv' = HartAfter(hart_prv, entry)
        /\ nsteps' = nsteps + 1
        /\ UNCHANGED <<decVars, emitted, busClosed, busVars, fnVars, sk, prvb, afdo>>

\* the first entry of every trace
StepSyncStart ==
    /\ upc = "new"
    /\ \E entry \in SyncStartEntries : Stepping(entry)

StepIj ==
    /\ upc = "run" /\ nsteps <= MaxSteps
    /\ \E entry \in IjEntries(hart_prv) : Stepping(entry)

StepUj ==
    /\ upc = "run" /\ nsteps <= MaxSteps
    /\ \E entry \in UjEntries(hart_prv) : Stepping(entry)

StepTrap ==
    /\ upc = "run" /\ nsteps <= MaxSteps
    /\ \E entry \in TrapEntries(hart_prv) : Stepping(entry)

StepOther ==
    /\ upc = "run" /\ nsteps <= MaxSteps
    /\ \E entry \in OtherEntries(hart_prv) : Stepping(entry)

\* the sink's _flush
Flush ==
    /\ upc = "run"
    /\ upc' = "flushed"
    /\ update' = flush(frame_stack)
    /\ spd' = SpeedscopeFlush(spd, flush(frame_stack))
    /\ lastEntry' = [kind |-> "flush"]
    /\ prevFrames' = frame_stack
    /\ prevPrv' = curr_prv
    /\ UNCHANGED <<frame_stack, curr_prv, hart_prv, nsteps>>
    /\ UNCHANGED <<decVars, emitted, busClosed, busVars, fnVars, sk, prvb, afdo>>

InitUnw == dpc = "loop" /\ DecoderBlank /\ BusInit /\ UnwinderNew /\ NoCall /\ SinksNew(TRUE)

NextUnw ==
    \/ StepSyncStart
    \/ StepIj
    \/ StepUj
    \/ StepTrap
    \/ StepOther
    \/ Flush

SpecUnw == InitUnw /\ [][NextUnw]_vars

-----------------------------------------------------------------------------
(* Claims about the stack unwinder.                                        *)

FramesOf(q) == {q[i] : i \in 1..Len(q)}

\* C16: the depth of the frame stack is never negative, and once flush()
\* has returned the depth is zero and every frame that remained was
\* reported closed.
C16_FlushLeavesDepthZero ==
    /\ Len(frame_stack) >= 0
    /\ upc = "flushed" =>
         /\ Len(frame_stack) = 0
         /\ update.some
         /\ Len(update.frames_closed) = Len(prevFrames)
         /\ FramesOf(update.frames_closed) = FramesOf(prevFrames)

\* C17: step never panics, whatever entry it is given in whatever state the
\* unwinder reached, an UninferableJump to a non-entry address under a head
\* frame of another privilege than curr_prv included.
C17_StepNeverPanics == upc # "panicked"

\* the last entry stepped was a Trap of reason Return, and step returned
AfterReturn ==
    /\ upc = "run"
    /\ lastEntry.kind = "Trap"
    /\ lastEntry.reason = "Return"

\* C18: a Trap Return pops frames until the head frame's privilege is
\* curr_prv or the stack is empty, and then curr_prv is the privilege
\* returned to, prv_arc.1.
C18_ReturnSetsCurrPrv ==
    AfterReturn =>
        /\ IsPrefix(frame_stack, prevFrames)
        /\ frame_stack = <<>> \/ frame_stack[Len(frame_stack)].prv = prevPrv
        /\ \A i \in Len(frame_stack) + 1 .. Len(prevFrames) : prevFrames[i].prv # prevPrv
        /\ curr_prv = lastEntry.prv_arc[2]

\* the encoding of a privilege (common/prv.rs)
PrvRank(p) ==
    CASE p = "PrvUser" -> 0 [] p = "PrvSupervisor" -> 1
      [] p = "PrvHypervisor" -> 2 [] p = "PrvMachine" -> 3

\* the addresses an Exception or Interrupt of the fixture enters a handler at
HandlerEntries ==
    { entry.arc[2] : entry \in
        { t \in UNION { TrapEntries(h) : h \in {"PrvUser", "PrvSupervisor", "PrvMachine"} } :
            t.reason # "Return" } }

\* C19: when the head frame is the handler frame an Exception or Interrupt
\* pushed in a privilege above the one returned to, the Trap Return closes
\* at least one frame, and no frame of a privilege above the one returned to
\* stays on the stack.
C19_ReturnClosesHandlerFrame ==
    ( /\ AfterReturn
      /\ prevFrames # <<>>
      /\ prevFrames[Len(prevFrames)].addr \in HandlerEntries
      /\ PrvRank(prevFrames[Len(prevFrames)].prv) > PrvRank(lastEntry.prv_arc[2]) ) =>
        /\ update.some
        /\ Len(update.frames_closed) >= 1
        /\ Len(frame_stack) < Len(prevFrames)
        /\ \A i \in 1..Len(frame_stack) :
               PrvRank(frame_stack[i].prv) <= PrvRank(lastEntry.prv_arc[2])

\* the last entry stepped was an UninferableJump to an address that is no
\* function entry of the current privilege, and step returned
AfterUjReturn ==
    /\ upc = "run"
    /\ lastEntry.kind = "UninferableJump"
    /\ lastEntry.arc[2] \notin DOMAIN SymbolIndex_get(prevPrv).map

\* to lies in the half-open range [start, end) of the frame's function
FrameContains(frame, to) ==
    LET rg == SymbolIndex_range(frame.prv, frame.addr).r
    IN  rg # <<>> /\ U64Le(rg[1], to) /\ U64Lt(to, rg[2])

AfterIj == upc = "run" /\ lastEntry.kind = "InferrableJump"

-----------------------------------------------------------------------------
(* The pure functions, each called with arguments drawn from a bounded set. *)

Prvs == {"PrvUser", "PrvSupervisor", "PrvMachine"}

\* addresses asked of the symbol index: every entry of every map, addresses
\* inside the functions, below the first and above the last entry
QueryAddrs ==
    UNION { DOMAIN SymbolIndex_get(p).map : p \in Prvs }
        \cup { UA(0), UA(4092), UA(4100), UA(4356), UA(4612), KA(4100), KA(4356),
               MA(4), U64Max }

Call(f, a, r) ==
    /\ op' = f
    /\ arg' = a
    /\ ret' = r
    /\ UNCHANGED <<decVars, emitted, busClosed, busVars, unwVars, sinkVars>>

\* SymbolIndex::range(prv, addr)
CallRange ==
    /\ op = "none"
    /\ \E p \in Prvs, addr \in QueryAddrs :
        Call("range", <<p, addr>>, SymbolIndex_range(p, addr).r)

\* values across the byte lengths 1..10 of the encoding
VarintValues ==
    { <<h, m, l>> : h \in {0, 1, 2^16, 2^23, R24 - 1}, m \in {0, 1, 2^8, R20 - 1},
                    l \in {0, 1, 127, 128, 2^14, R20 - 1} }

\* read_varint on the encoding of v, followed by the rest of the stream
CallVarint ==
    /\ op = "none"
    /\ \E v \in VarintValues, rest \in {<<>>, <<5>>, <<133, 0>>} :
        \E r \in {read_varint(EncVarint(v) \o rest, 1)} :
            Call("varint", <<v, rest>>,
                 [st |-> r.st, value |-> r.value, count |-> r.count,
                  consumed |-> r.next - 1, len |-> Len(EncVarint(v))])

\* 40-bit instruction addresses on both sides of bit 39
RefundAddrs ==
    { <<0, m, l>> : m \in {0, 1, R20 \div 2 - 1, R20 \div 2, R20 \div 2 + 1, R20 - 1},
                    l \in {0, 2, 4096, R20 - 2} }

\* refund_addr on the wire form of the sign-extended address
CallRefund ==
    /\ op = "none"
    /\ \E x \in RefundAddrs :
        Call("refund", <<x>>, refund_addr(U64Shr1(SignExt39(x))))

\* the symbols an ELF file can list: aliases of two addresses, with and
\* without a name, a mapping symbol and a symbol of a data section
ElfSymbols ==
    { [addr |-> UA(a), name |-> n, exec |-> TRUE] : a \in {16, 32}, n \in {"", "f", "g"} }
        \cup { [addr |-> UA(16), name |-> "$x", exec |-> TRUE],
               [addr |-> UA(16), name |-> "d", exec |-> FALSE] }

SymbolLists == UNION { [1..n -> ElfSymbols] : n \in 1..MaxSyms }

\* the kernel binary is loaded at 0, a driver at its entry point
LoadOffsets == {UA(0), UA(16), UA(256)}

\* build_single_symbol_index(elf, PrvSupervisor, offset, 0)
CallBuild ==
    /\ op = "none"
    /\ \E syms \in SymbolLists, offset \in LoadOffsets :
        Call("build", <<syms, offset>>,
             build_single_symbol_index(syms, 1, "PrvSupervisor", offset, <<>>))

InitFn == dpc = "loop" /\ DecoderBlank /\ BusInit /\ UnwinderNew /\ NoCall /\ SinksNew(TRUE)

NextFn ==
    \/ CallRange
    \/ CallVarint
    \/ CallRefund
    \/ CallBuild

SpecFn == InitFn /\ [][NextFn]_vars

-----------------------------------------------------------------------------
(* Claims about the pure functions.                                        *)

AliasesOf(syms, a) ==
    { i \in 1..Len(syms) :
        syms[i].exec /\ syms[i].name \notin GhostNames /\ syms[i].addr = a }

\* the alias the index is to keep: the first with a name, else the first
KeptAlias(syms, a) ==
    LET al == AliasesOf(syms, a)
        named == {i \in al : ~ IsBlank(syms[i].name)}
    IN  IF named # {} THEN CHOOSE i \in named : \A j \in named : i <= j
        ELSE CHOOSE i \in al : \A j \in al : i <= j

\* C23: the index built from a list of symbols and a load offset has, at
\* every address a + offset some symbol sits at, the first alias of a with
\* a non-empty name, or the first alias when none has a name.
C23_FirstNamedAliasWins ==
    op = "build" =>
        LET syms == arg[1]
            offset == arg[2]
            addrs == {syms[i].addr : i \in {j \in 1..Len(syms) : AliasesOf(syms, syms[j].addr) # {}}}
        IN  /\ DOMAIN ret = {U64Add(a, offset) : a \in addrs}
            /\ \A a \in addrs :
                   ret[U64Add(a, offset)].name = syms[KeptAlias(syms, a)].name

\* C24: read_varint of the encoding of v returns v and a count equal to the
\* encoding's length, which is at most 10, and consumes that many bytes.
C24_VarintRoundTrip ==
    op = "varint" =>
        /\ ret.st = "ok"
        /\ ret.value = arg[1]
        /\ ret.count = ret.len
        /\ ret.consumed = ret.len
        /\ ret.len <= 10

\* the largest value: ten bytes
C24_Witness ==
    /\ op = "varint"
    /\ arg[1] = U64Max
    /\ ret.len = 10
    /\ ret.value = U64Max

-----------------------------------------------------------------------------
(* Further claims about the decoder.                                       *)

\* C26: no event the decoder emits carries the privilege Hypervisor, neither
\* as the start_prv of SyncStart nor in the prv_arc of a Trap.
C26_HypervisorNeverEmitted ==
    \A i \in 1..Len(emitted) :
        /\ emitted[i].kind = "SyncStart" => emitted[i].start_prv # "PrvHypervisor"
        /\ emitted[i].kind = "Trap" =>
               /\ emitted[i].prv_arc[1] # "PrvHypervisor"
               /\ emitted[i].prv_arc[2] # "PrvHypervisor"

\* C27: for a packet of any family, the count read_packet returns is the
\* number of bytes it consumed from the stream.
C27_ReadPacketCountsItsBytes ==
    (npackets >= 1 /\ lastRead.st = "ok") => lastRead.n = lastRead.used

\* C28: a SyncEnd emitted for an FSync packet reports the packet's refunded
\* target address as end_pc; a walk that stops elsewhere is not reported.
C28_SyncEndIsRefundedTarget ==
    \A i \in 1..Len(emitted) :
        emitted[i].kind = "SyncEnd" =>
            emitted[i].end_pc = refund_addr(emitCtx[i].target_address)

\* the arm of the packet loop that the header and the branch mode select
\* (decoder.rs:223-465)
DecodeOp(pkt, d, map, cfg) ==
    IF pkt.f_header = "FSync" THEN DecodeFSyncOp(pkt, d, map)
    ELSE IF pkt.f_header = "FTrap" THEN DecodeFTrapOp(pkt, d, map)
    ELSE IF cfg.br_mode = "BrPredict" /\ pkt.f_header = "FTb"
    THEN DecodePredictFTbOp(pkt, d, map, cfg)
    ELSE IF cfg.br_mode = "BrPredict" /\ pkt.f_header = "FNt"
    THEN DecodePredictFNtOp(pkt, d, map, cfg)
    ELSE DecodeTargetOp(pkt, d, map, cfg)

\* one decoded packet, as a step of the thread
DecodedPacket ==
    /\ dpc = "loop"
    /\ npackets' = npackets + 1
    /\ lastRead'.st = "ok"
    /\ InsnIndexGet(prv, ctx).st = "ok"

SkippedPacket ==
    /\ DecodedPacket
    /\ u_unknown_ctx /\ prv = "PrvUser"
    /\ packet'.f_header \notin {"FSync", "FTrap"}
    /\ ~ (runtime_cfg.br_mode = "BrPredict" /\ packet'.f_header \in {"FTb", "FNt"})

\* the trap that leaves the unknown user context for a kernel privilege
TrapOutOfUnknown ==
    /\ DecodedPacket
    /\ u_unknown_ctx /\ prv = "PrvUser"
    /\ packet'.f_header = "FTrap"
    /\ packet'.target_prv \in {"PrvSupervisor", "PrvMachine"}
    /\ dpc' = "loop"

\* a packet of the target arm decoded in a kernel privilege
KernelPacket ==
    /\ DecodedPacket
    /\ prv \in {"PrvSupervisor", "PrvMachine"}
    /\ packet'.f_header \notin {"FSync", "FTrap"}
    /\ ~ (runtime_cfg.br_mode = "BrPredict" /\ packet'.f_header \in {"FTb", "FNt"})
    /\ dpc' = "loop"

NewEntries == SubSeq(emitted', Len(emitted) + 1, Len(emitted'))

\* C30: a packet skipped because the context is unknown and the privilege
\* is User adds its delta to the running timestamp, broadcasts nothing and
\* leaves pc, prv, ctx, u_unknown_ctx, the predictor and the block cache
\* as they were; the trap that then enters a kernel privilege and the
\* kernel packets after it are stamped with the accumulated timestamp
\* plus their own delta.
C30_SkipOnlyAdvancesTime ==
    [][/\ SkippedPacket =>
            /\ timestamp' = U64Add(timestamp, packet'.timestamp)
            /\ emitted' = emitted
            /\ dpc' = "loop"
            /\ UNCHANGED <<pc, prv, ctx, u_unknown_ctx, bp_counter, decoder_cache>>
       /\ (TrapOutOfUnknown \/ KernelPacket) =>
            /\ timestamp' = U64Add(timestamp, packet'.timestamp)
            /\ \A i \in 1..Len(NewEntries) : NewEntries[i].timestamp = timestamp']_vars

\* a packet was skipped between a return to an unindexed context and the
\* next trap, whose entry carries the skipped delta, and a kernel packet
\* was decoded after that trap
C30_Witness ==
    \E j \in 2..Len(emitted) :
        /\ emitCtx[j].u /\ emitCtx[j].prv = "PrvUser"
        /\ emitCtx[j].f_header = "FTrap"
        /\ emitCtx[j].target_prv = "PrvSupervisor"
        /\ U64Lt(U64Add(emitted[j-1].timestamp, emitCtx[j].delta), emitted[j].timestamp)
        /\ j < Len(emitted)
        /\ emitCtx[j+1].prv = "PrvSupervisor"
        /\ emitCtx[j+1].f_header \notin {"FSync", "FTrap"}
        /\ emitted[j+1].timestamp = U64Add(emitted[j].timestamp, emitCtx[j+1].delta)

\* ---------------------------------------------------------------------
\* Claims about the predict arms, the traps and the end of the trace
\* ---------------------------------------------------------------------

BranchKinds == {"TakenBranch", "NonTakenBranch"}

\* a decoded FTb packet in BrPredict mode
PredictFTbPacket ==
    /\ DecodedPacket
    /\ runtime_cfg.br_mode = "BrPredict"
    /\ packet'.f_header = "FTb"

\* C31: in BrPredict mode an FTb packet leaves the running timestamp as
\* it was: the packet's timestamp field is the hit count of the BPHit
\* entry, and every branch entry of the packet carries the running
\* timestamp from before the packet, which is what the next packet's
\* delta is added to.
C31_PredictedHitKeepsTime ==
    [][PredictFTbPacket =>
         /\ timestamp' = timestamp
         /\ Len(NewEntries) >= 1
         /\ NewEntries[1].kind = "BPHit"
         /\ NewEntries[1].hit_count = packet'.timestamp
         /\ \A i \in 2..Len(NewEntries) :
               NewEntries[i].kind \in BranchKinds => NewEntries[i].timestamp = timestamp]_vars

\* a predicted hit with a positive count produced a branch entry, and
\* the predicted miss after it is stamped with that entry's timestamp
\* plus its own delta
C31_Witness ==
    \E i \in 1..Len(emitted) : \E j \in 1..Len(emitted) :
        /\ i < j
        /\ emitCtx[i].br_mode = "BrPredict"
        /\ emitCtx[i].f_header = "FTb"
        /\ emitted[i].kind \in BranchKinds
        /\ U64Lt(U64Of(0), emitCtx[i].delta)
        /\ emitted[j].kind = "BPMiss"
        /\ emitted[j].timestamp = U64Add(emitted[i].timestamp, emitCtx[j].delta)

\* a decoded FNt packet in BrPredict mode after which the loop goes on
PredictFNtPacket ==
    /\ DecodedPacket
    /\ runtime_cfg.br_mode = "BrPredict"
    /\ packet'.f_header = "FNt"
    /\ dpc' = "loop"

\* C32: in BrPredict mode an FNt packet broadcasts BPMiss and then exactly
\* one branch entry, for the branch the walk stops at; the entry is
\* TakenBranch when the predictor, consulted for that branch with the
\* hint not-taken, answers not-taken, and NonTakenBranch when it answers
\* taken.
C32_MissInvertsPrediction ==
    [][PredictFNtPacket =>
         /\ Len(NewEntries) = 2
         /\ NewEntries[1].kind = "BPMiss"
         /\ NewEntries[2].kind \in BranchKinds
         /\ \E pr \in {BpPredict(bp_counter, runtime_cfg.bp_entries,
                                 NewEntries[2].arc[1], FALSE)} :
               /\ pr.st = "ok"
               /\ (NewEntries[2].kind = "TakenBranch") = (~ pr.taken)
               /\ bp_counter' = pr.bp]_vars

\* a predicted hit trained the counter to taken, and the predicted miss
\* that consulted it next was resolved as not taken
C32_Witness ==
    \E i \in 3..Len(emitted) :
        /\ emitCtx[i-2].f_header = "FTb"
        /\ emitCtx[i-2].br_mode = "BrPredict"
        /\ emitted[i-1].kind = "BPMiss"
        /\ emitCtx[i].f_header = "FNt"
        /\ emitted[i].kind = "NonTakenBranch"

\* a decoded FTrap packet after which the loop goes on
TrapPacket ==
    /\ DecodedPacket
    /\ packet'.f_header = "FTrap"
    /\ dpc' = "loop"

\* C33: every FTrap packet broadcasts one Trap entry whose arc goes from
\* refund(from_address) to the sign-extension from bit 39 of
\* (refund(from_address) AND (2^40 - 1)) XOR (target_address << 1); the
\* decoder goes on from arc.1 in the privilege target_prv; and unless the
\* walk is skipped (unknown context in User), the walk from the pc before
\* the packet arrives at refund(from_address).
C33_TrapArcIsRefundXor ==
    [][TrapPacket =>
         \E from \in {refund_addr(packet'.from_address)} :
            /\ Len(NewEntries) = 1
            /\ NewEntries[1].kind = "Trap"
            /\ NewEntries[1].arc =
                  <<from, SignExt39(U64Xor(U64And(from, ADDR_MASK),
                                           U64Shl1(packet'.target_address)))>>
            /\ get_addr(pc') = NewEntries[1].arc[2]
            /\ prv' = packet'.target_prv
            /\ ~ (u_unknown_ctx /\ prv = "PrvUser") =>
                  \E su \in {step_bb_until(get_addr(pc), InsnIndexGet(prv, ctx).map, from)} :
                      su.st = "ok" /\ su.pc = from]_vars

\* C36: the decoder broadcasts SyncEnd and stops only on an FSync packet
\* whose sync type is End; after an FSync packet of another sync type the
\* loop goes on and nothing is broadcast as SyncEnd.
C36_OnlySyncEndStops ==
    /\ \A i \in 1..Len(emitted) :
          emitted[i].kind = "SyncEnd" => emitCtx[i].func3 = <<"SyncType", "SyncEnd">>
    /\ (dpc = "ok" /\ npackets >= 1 /\ lastRead.st = "ok" /\ packet.f_header = "FSync")
          => packet.func3 = <<"SyncType", "SyncEnd">>

\* C37: the decoder terminates on every finite packet stream and finite
\* instruction index, in both branch modes: every walk of step_bb and
\* step_bb_until returns or fails, so the thread ends and the bus is closed.
C37_DecoderTerminates ==
    <>(dpc \in {"ok", "err", "panicked"} /\ busClosed)

-----------------------------------------------------------------------------
(* The sinks behind the bus.  Every sink thread is handed the entries the   *)
(* decoder broadcast, in order, and is flushed once; the sinks do not      *)
(* share state, so a behaviour of SpecSink follows one of them.  The        *)
(* arithmetic is u64; the build decides whether an overflow panics or      *)
(* wraps (sk.checks).                                                      *)

\* update_prv_cycles(timestamp)
update_prv_cycles(s, ts, checks) ==
    IF s.curr_prv \notin {"PrvUser", "PrvSupervisor", "PrvMachine"}
    THEN [s EXCEPT !.st = "panicked"]
    ELSE IF checks /\ U64Lt(ts, s.prev_timestamp) THEN [s EXCEPT !.st = "panicked"]
    ELSE Bind(U64Sub(ts, s.prev_timestamp), LAMBDA dt :
         Bind(CASE s.curr_prv = "PrvUser" -> s.u_prv_cycles
                [] s.curr_prv = "PrvSupervisor" -> s.k_prv_cycles
                [] OTHER -> s.m_prv_cycles, LAMBDA c :
           IF checks /\ U64Lt(U64Add(c, dt), c) THEN [s EXCEPT !.st = "panicked"]
           ELSE CASE s.curr_prv = "PrvUser" ->
                       [s EXCEPT !.u_prv_cycles = U64Add(c, dt), !.prev_timestamp = ts]
                  [] s.curr_prv = "PrvSupervisor" ->
                       [s EXCEPT !.k_prv_cycles = U64Add(c, dt), !.prev_timestamp = ts]
                  [] OTHER ->
                       [s EXCEPT !.m_prv_cycles = U64Add(c, dt), !.prev_timestamp = ts]))

\* a sink that switches the privilege before it attributes the cycles
PrvReceiveEntry_SwitchFirst(s, e, checks) ==
    CASE e.kind = "Instruction" -> s
      [] e.kind = "SyncStart" ->
            [s EXCEPT !.curr_prv = e.start_prv, !.prev_timestamp = e.timestamp]
      [] e.kind = "Trap" ->
            update_prv_cycles([s EXCEPT !.curr_prv = e.prv_arc[2]], e.timestamp, checks)
      [] OTHER -> update_prv_cycles(s, e.timestamp, checks)

\* PrvBreakdownReceiver::_receive_entry
PrvReceiveEntry(s, e, checks) ==
    CASE e.kind = "Instruction" -> s
      [] e.kind = "SyncStart" ->
            [s EXCEPT !.curr_prv = e.start_prv, !.prev_timestamp = e.timestamp]
      [] e.kind = "Trap" ->
            Bind(update_prv_cycles(s, e.timestamp, checks), LAMBDA s1 :
              IF s1.st = "ok" THEN [s1 EXCEPT !.curr_prv = e.prv_arc[2]] ELSE s1)
      [] OTHER -> update_prv_cycles(s, e.timestamp, checks)

\* the count at key grows by one (entry().and_modify(+1).or_insert(1))
MapInc(m, key) ==
    IF key \in DOMAIN m THEN [m EXCEPT ![key] = @ + 1] ELSE (key :> 1) @@ m

\* AfdoReceiver::update_records; last_record is a pair, .0 first
update_records(s, from_addr, to_addr, ts) ==
    [range_map |-> MapInc(s.range_map, <<s.last_record[2], to_addr>>),
     branch_map |-> MapInc(s.branch_map, <<from_addr, to_addr>>),
     last_record |-> <<to_addr, ts>>]

\* the arcs the AFDO sink records
RecordedKinds == {"TakenBranch", "InferrableJump", "UninferableJump"}

\* AfdoReceiver::_receive_entry
AfdoReceiveEntry(s, e) ==
    CASE e.kind = "SyncStart" -> [s EXCEPT !.last_record = <<U64Zero, e.start_pc>>]
      [] e.kind \in RecordedKinds -> update_records(s, e.arc[1], e.arc[2], e.timestamp)
      [] OTHER -> s

\* the timestamps of the entries handed to a sink of SpecSink
SinkTimes == {U64Of(4), U64Of(6), U64Of(8)}

\* the first entry of every stream
SinkFirst ==
    { EvSyncStart([br_mode |-> "BrTarget", bp_entries |-> 0], UA(4096), p, U64Of(7), U64Of(5)) :
        p \in {"PrvUser", "PrvSupervisor"} }

\* the entries after it
SinkLater ==
    UNION { { EvTakenBranch(<<UA(4100), UA(4108)>>, t),
              EvNonTakenBranch(<<UA(4100), UA(4104)>>, t),
              EvInferrableJump(<<UA(4104), UA(4352)>>, t),
              EvUninferableJump(<<UA(4360), UA(4108)>>, t),
              EvTrap("Exception", <<"PrvSupervisor", "PrvSupervisor">>,
                     <<UA(4100), KA(4096)>>, <<>>, t),
              EvTrap("Interrupt", <<"PrvMachine", "PrvMachine">>,
                     <<KA(4100), MA(0)>>, <<>>, t),
              EvTrap("Return", <<"PrvUser", "PrvUser">>,
                     <<KA(4104), UA(4100)>>, <<U64Of(7)>>, t) } : t \in SinkTimes }
        \cup { InstructionEntry(UA(4096)) }

\* the entry e is handed to the sink named who
Handed(who, e) ==
    sk' = [sk EXCEPT !.active = who, !.n = sk.n + 1, !.entry = e,
                     !.sync_ts = IF e.kind = "SyncStart" THEN e.timestamp ELSE sk.sync_ts,
                     !.last_to = IF e.kind = "SyncStart" THEN e.start_pc
                                 ELSE IF e.kind \in RecordedKinds THEN e.arc[2]
                                 ELSE sk.last_to]

\* the receive loop of the privilege-breakdown sink
PrvReceive ==
    /\ sk.active \in {"none", "prv_breakdown"}
    /\ sk.n <= MaxEvents
    /\ prvb.st = "ok"
    /\ \E e \in (IF sk.n = 0 THEN SinkFirst ELSE SinkLater) :
         /\ prvb' = PrvReceiveEntry(prvb, e, sk.checks)
         /\ Handed("prv_breakdown", e)
    /\ UNCHANGED <<decVars, emitted, busClosed, busVars, unwVars, fnVars, afdo, spd>>

\* the receive loop of the AFDO sink
AfdoReceive ==
    /\ sk.active \in {"none", "afdo"}
    /\ sk.n <= MaxEvents
    /\ \E e \in (IF sk.n = 0 THEN SinkFirst ELSE SinkLater) :
         /\ afdo' = AfdoReceiveEntry(afdo, e)
         /\ Handed("afdo", e)
    /\ UNCHANGED <<decVars, emitted, busClosed, busVars, unwVars, fnVars, prvb, spd>>

InitSink ==
    /\ dpc = "loop" /\ DecoderBlank /\ BusInit /\ UnwinderNew /\ NoCall
    /\ \E c \in BOOLEAN : SinksNew(c)

NextSink ==
    \/ PrvReceive
    \/ AfdoReceive

SpecSink == InitSink /\ [][NextSink]_vars

-----------------------------------------------------------------------------
(* Claims about the sinks.                                                 *)

\* the privilege-breakdown sink took an entry and lives
PrvTook ==
    /\ sk'.active = "prv_breakdown"
    /\ sk'.n = sk.n + 1
    /\ prvb'.st = "ok"

\* the counter the sink keeps for privilege p
PrvCycles(s, p) ==
    CASE p = "PrvUser" -> s.u_prv_cycles
      [] p = "PrvSupervisor" -> s.k_prv_cycles
      [] OTHER -> s.m_prv_cycles

\* C34: on every event after SyncStart the privilege-breakdown sink adds
\* the event's timestamp minus prev_timestamp to the counter of the
\* privilege it was in before the event and to no other, sets
\* prev_timestamp to the event's timestamp, and only then, for a Trap,
\* moves to prv_arc.1; SyncStart sets the privilege and prev_timestamp and
\* adds nothing; the three counters sum to prev_timestamp minus the
\* timestamp of SyncStart.
C34_CyclesGoToPrvBeforeEvent ==
    [][PrvTook =>
         /\ sk'.entry.kind = "Instruction" => prvb' = prvb
         /\ sk'.entry.kind = "SyncStart" =>
               prvb' = [prvb EXCEPT !.curr_prv = sk'.entry.start_prv,
                                    !.prev_timestamp = sk'.entry.timestamp]
         /\ sk'.entry.kind \notin {"Instruction", "SyncStart"} =>
               /\ \A p \in {"PrvUser", "PrvSupervisor", "PrvMachine"} :
                     PrvCycles(prvb', p) =
                        IF p = prvb.curr_prv
                        THEN U64Add(PrvCycles(prvb, p),
                                    U64Sub(sk'.entry.timestamp, prvb.prev_timestamp))
                        ELSE PrvCycles(prvb, p)
               /\ prvb'.prev_timestamp = sk'.entry.timestamp
               /\ prvb'.curr_prv = IF sk'.entry.kind = "Trap" THEN sk'.entry.prv_arc[2]
                                   ELSE prvb.curr_prv
         /\ U64Add(prvb'.u_prv_cycles, U64Add(prvb'.k_prv_cycles, prvb'.m_prv_cycles))
               = U64Sub(prvb'.prev_timestamp, sk'.sync_ts)]_vars

\* cycles were attributed to User and, after a trap, to Supervisor
C34_Witness ==
    /\ sk.active = "prv_breakdown"
    /\ prvb.st = "ok"
    /\ sk.entry.kind = "Trap"
    /\ U64Lt(U64Zero, prvb.u_prv_cycles)
    /\ U64Lt(U64Zero, prvb.k_prv_cycles)
    /\ prvb.m_prv_cycles = U64Zero

\* the count a map of the AFDO sink holds for a key
CountAt(m, key) == IF key \in DOMAIN m THEN m[key] ELSE 0

\* the AFDO sink took an arc it records
AfdoRecorded ==
    /\ sk'.active = "afdo"
    /\ sk'.n = sk.n + 1
    /\ sk'.entry.kind \in RecordedKinds

\* C35: every arc (from, to) the AFDO sink records adds one to range_map
\* at the key (last_to, to), where last_to is the target of the arc
\* recorded before it, or start_pc for the first arc after SyncStart, and
\* adds one to branch_map at the key (from, to).
C35_RangeKeyIsLastTarget ==
    [][AfdoRecorded =>
         /\ afdo'.range_map = MapInc(afdo.range_map, <<sk.last_to, sk'.entry.arc[2]>>)
         /\ afdo'.branch_map = MapInc(afdo.branch_map, <<sk'.entry.arc[1], sk'.entry.arc[2]>>)]_vars

\* the frames still open after the events from i on, starting from the
\* open frames in stack, or "bad" once a Close is not for the frame opened last
RECURSIVE OpenAfter(_, _, _)
OpenAfter(events, i, stack) ==
    IF i > Len(events) THEN stack
    ELSE IF events[i].kind = "O"
    THEN OpenAfter(events, i + 1, Append(stack, events[i].frame))
    ELSE IF stack # <<>> /\ stack[Len(stack)] = events[i].frame
    THEN OpenAfter(events, i + 1, SubSeq(stack, 1, Len(stack) - 1))
    ELSE <<"bad">>

\* C38: after _flush the Open/Close events the Speedscope sink recorded are
\* balanced and well nested: every Close is for the frame opened last
\* among those still open, be it a function frame, the synthetic frame of
\* an ASID or a frame closed by the flush, and no frame stays open.
C38_ProfileEventsWellNested ==
    upc = "flushed" => OpenAfter(spd.events, 1, <<>>) = <<>>

\* C39: every Trap event the decoder has emitted whose target privilege
\* (prv_arc.1) is User carries a ctx value, so a sink that unwraps the ctx
\* of such an event never fails on the decoder's stream.
C39_UserTrapCarriesCtx ==
    \A i \in 1..Len(emitted) :
        (emitted[i].kind = "Trap" /\ emitted[i].prv_arc[2] = "PrvUser")
            => emitted[i].ctx # <<>>

\* does the privilege-breakdown sink in state s, reading entries from the
\* i-th on, reach update_prv_cycles with a timestamp below prev_timestamp
RECURSIVE PrvUnderflows(_, _, _)
PrvUnderflows(s, entries, i) ==
    IF i > Len(entries) \/ s.st # "ok" THEN FALSE
    ELSE IF /\ entries[i].kind \notin {"Instruction", "SyncStart"}
            /\ s.curr_prv \in {"PrvUser", "PrvSupervisor", "PrvMachine"}
            /\ U64Lt(entries[i].timestamp, s.prev_timestamp)
    THEN TRUE
    ELSE PrvUnderflows(PrvReceiveEntry(s, entries[i], FALSE), entries, i + 1)

\* C40: on every event stream the decoder produces, in BrTarget and in
\* BrPredict mode, the privilege-breakdown sink never computes
\* timestamp - prev_timestamp with timestamp below prev_timestamp: the
\* unsigned 64-bit subtraction never underflows.
C40_PrvCyclesNeverUnderflow ==
    ~PrvUnderflows(PrvBreakdownNew, emitted, 1)

=============================================================================
